---- MODULE Spec2Model ----
(***************************************************************************)
(* A model of brak_scrape.py: the PrimeFaces/JSF AJAX transport            *)
(* (BRAVScraper._request, BRAVScraper.ajax, _parse_partial_response) and   *)
(* the crawl loop of main() that threads the ViewState through search,     *)
(* pagination and detail exchanges.                                        *)
(*                                                                         *)
(* The specifications share the variables:                                 *)
(*   Spec      the crawl of main(), one step per page load / exchange      *)
(*   SpecAjax  ajax() applied to one response body (a pure function)       *)
(*   SpecPage  fetch_page's reading of its refresh response                *)
(*   SpecReq   the retry loop of _request under ajax()                     *)
(*   SpecTwo   SpecReq next to a second instance in the same process       *)
(*   SpecParse  _is_jsf_partial and _parse_partial_response on one body    *)
(*   SpecVs     _extract_viewstate_any on one document                     *)
(*   SpecTotal  _extract_total_results on one result text                  *)
(*   SpecCards  _parse_cards on one page of result cards                   *)
(*   SpecSelect _extract_select_options on one selector                    *)
(*   SpecForm   the form fields ajax() builds for one call                 *)
(*   SpecSids   parse_search_ids on one search page                        *)
(*   SpecFetch  fetch_page with the forms of its two exchanges             *)
(*   SpecSearch ajax_search_by_bar's exchange and parse_result_ids         *)
(*   SpecLoad   get_search_page over its candidate URLs                    *)
(*   SpecDetail fetch_details with the form of its exchange                *)
(*   SpecDetails _extract_details on the rows of one detail fragment       *)
(*   SpecLive   Spec with main() always taking its next step               *)
(***************************************************************************)
EXTENDS Integers, Sequences, FiniteSets, TLC

(***************************  bounds of the model  *************************)
\* number of jurisdictions (bars) selected for the run
NumBars == 2
\* largest total result count a search reports
MaxTotal == 3
\* largest --rows page size
MaxRows == 2
\* largest number of result cards on one page
MaxCards == 2
\* largest --max-records cap
MaxCap == 2
\* longest update payload, in characters (SpecAjax)
MaxLen == 2
\* most <update> elements in one envelope (SpecAjax)
MaxUpdates == 2
\* most logical requests one instance issues (SpecReq)
MaxRequests == 121
\* longest number text after a result-count phrasing, in characters (SpecTotal)
MaxNumLen == 5
\* most <li> lines in one result card (SpecCards)
MaxLines == 4
\* most <option> elements in the jurisdiction selector (SpecSelect)
MaxOptions == 3
\* most logical requests a second instance issues (SpecTwo)
MaxOther == 21
\* length of the proxy list returned by get_proxies (SpecReq)
NumProxies == 2
\* most elements with an id and an onclick attribute on a search page (SpecSids)
MaxElements == 2
\* largest offset handed to fetch_page (SpecFetch)
MaxFirst == 3
\* most cssRow blocks in one detail fragment (SpecDetails)
MaxDetailRows == 3

(***************************  program constants  ***************************)
\* BRAVScraper.__init__(max_retries=3)
max_retries == 3
\* self.rotate_every = 20
rotate_every == 20
\* len(HEADERS_LIST)
NumHeaders == 4
\* _is_jsf_partial inspects t[:4000]
PrefixLen == 4000
\* len("<partial-response")
MarkerLen == 17

(***************************  strings  *************************************)
\* A Python str is a sequence of characters; " " is the whitespace character.
Chars == {" ", "a", "b"}

\* Python None where an Optional[str] is expected
None == <<"None">>

\* truthiness of an Optional[str]: None and "" are falsy
Truthy(s) == s # None /\ s # <<>>

RECURSIVE LStrip(_)
LStrip(s) ==
    IF s # <<>> /\ Head(s) = " " THEN LStrip(Tail(s)) ELSE s

RECURSIVE RStrip(_)
RStrip(s) ==
    IF s # <<>> /\ s[Len(s)] = " " THEN RStrip(SubSeq(s, 1, Len(s) - 1)) ELSE s

\* str.strip()
Strip(s) == RStrip(LStrip(s))

Max(S) == CHOOSE x \in S : \A y \in S : y <= x

(***************************  update identifiers  **************************)
SearchFormId == "searchForm"
ResultFormId == "resultForm"
MainContentId == "mainPageContent"
DetailFormId == "resultDetailForm"
\* a component inside the search form: its client id embeds the form's id
SearchChildId == "searchForm:ddRAKammer_input"
ViewStateId == "j_id1:jakarta.faces.ViewState:0"
ViewStateIdJavax == "javax.faces.ViewState"
OtherId == "foo"

\* "ViewState" in update_id
HasViewStateMarker(id) == id \in {ViewStateId, ViewStateIdJavax}

\* "searchForm" in <text>, for the text of one update identifier
ContainsSearchForm(id) == id \in {SearchFormId, SearchChildId}

(***************************  response bodies  *****************************)
\* A response body (resp.text):
\*   text      "none" the empty string, "blank" whitespace only, "doc" else
\*   markerAt  index of "<partial-response" in the left-stripped text, -1 if
\*             the text does not contain it
\*   xmlOk     whether ET.fromstring parses the text
\*   updates   the <update id=..>payload</update> elements in document order
NoBody == [text |-> "none", markerAt |-> -1, xmlOk |-> FALSE, updates |-> <<>>]

BlankBody == [text |-> "blank", markerAt |-> -1, xmlOk |-> FALSE, updates |-> <<>>]

\* a full HTML page: no envelope marker
FullPage == [text |-> "doc", markerAt |-> -1, xmlOk |-> FALSE, updates |-> <<>>]

Envelope(at, ok, us) ==
    [text |-> "doc", markerAt |-> at, xmlOk |-> ok, updates |-> IF ok THEN us ELSE <<>>]

\* _is_jsf_partial: the marker lies wholly inside the first 4000 characters
IsJsfPartial(body) ==
    body.markerAt >= 0 /\ body.markerAt + MarkerLen <= PrefixLen

\* the dict built by _parse_partial_response: a later update with the same id
\* overwrites an earlier one
UpdatesOf(us) ==
    [id \in {us[k].id : k \in DOMAIN us} |->
        us[Max({k \in DOMAIN us : us[k].id = id})].payload]

ViewStateUntrimmed(us) ==
    LET K == {k \in DOMAIN us : HasViewStateMarker(us[k].id) /\ us[k].payload # <<>>}
    IN  IF K = {} THEN None ELSE us[Max(K)].payload

\* the viewstate of _parse_partial_response: the stripped payload of the last
\* update whose id contains "ViewState" and whose payload is non-empty
ViewStateOf(us) ==
    LET K == {k \in DOMAIN us : HasViewStateMarker(us[k].id) /\ us[k].payload # <<>>}
    IN  IF K = {} THEN None ELSE Strip(us[Max(K)].payload)

\* _parse_partial_response
ParsePartialResponse(body) ==
    [updates |-> UpdatesOf(body.updates), viewstate |-> ViewStateOf(body.updates)]

(***************************  ajax  ****************************************)
Raise(e) == [ok |-> FALSE, err |-> e, updates |-> <<>>, viewstate |-> None]

AjaxNoFallback(viewstate, body) ==
    IF body.text # "doc" THEN Raise("empty")
    ELSE IF ~IsJsfPartial(body) THEN Raise("nonxml")
    ELSE IF ~body.xmlOk THEN Raise("xmlparse")
    ELSE LET p == ParsePartialResponse(body)
         IN  [ok |-> TRUE, err |-> "", updates |-> p.updates, viewstate |-> p.viewstate]

AjaxAcceptsAny(viewstate, body) ==
    IF body.text # "doc" THEN Raise("empty")
    ELSE IF ~body.xmlOk THEN Raise("xmlparse")
    ELSE LET p == ParsePartialResponse(body)
         IN  [ok |-> TRUE, err |-> "", updates |-> p.updates,
              viewstate |-> IF Truthy(p.viewstate) THEN p.viewstate ELSE viewstate]

\* BRAVScraper.ajax from the body _request returned: validation, decoding and
\* `new_viewstate or viewstate`
Ajax(viewstate, body) ==
    IF body.text # "doc" THEN Raise("empty")
    ELSE IF ~IsJsfPartial(body) THEN Raise("nonxml")
    ELSE IF ~body.xmlOk THEN Raise("xmlparse")
    ELSE LET p == ParsePartialResponse(body)
         IN  [ok |-> TRUE, err |-> "", updates |-> p.updates,
              viewstate |-> IF Truthy(p.viewstate) THEN p.viewstate ELSE viewstate]

\* dict.get(key) or ""
Get(updates, key) == IF key \in DOMAIN updates THEN updates[key] ELSE <<>>


(***************************  state  ***************************************)
VARIABLES
    \* main(): position, configuration and locals
    pc,            \* position in main()
    phase,         \* "try" | "research" (in the except handler) | "retry"
    barIdx,        \* index of bar_label in wanted
    rows,          \* args.rows
    maxRecords,    \* args.max_records
    sidsVs,        \* sids.viewstate inside ajax_search_by_bar (None outside)
    ids,           \* ResultIds: its viewstate, and the bar whose search built it
    total,         \* total
    first,         \* first
    fpVs,          \* fetch_page's local `viewstate` between its two exchanges
                   \* (None outside)
    cards,         \* cards of the current page (empty once the loop goes on)
    cardIdx,       \* position of the detail loop in cards
    totalWritten,  \* total_written
    err,           \* the exception that left main()
    \* history (not program state)
    observed,      \* ViewState of the latest page load or successful ajax()
    lastX,         \* the exchange made by the step just taken: the ViewState it
                   \* submitted and the one that was current
    fetchLog,      \* offsets of the fetch_page calls of the current bar, kept
                   \* while clean
    writeLog,      \* offsets of the pages written for the current bar
    attempted,     \* bars whose search has been started
    nSearch,       \* recovery searches started in the current loop iteration
    nFetch,        \* fetch_page calls in the current loop iteration
    clean,         \* no exchange of the current bar has failed or expired
    sink,          \* rows handed to _write_csv by the step just taken
    \* fetch_page's reading of a refresh response (SpecPage)
    pageIn, pageOut,
    \* ajax() as a function (SpecAjax)
    ajaxIn, ajaxOut,
    \* _request (SpecReq)
    rq, request_count, current_headers, current_proxy, header_cycle, proxy_cycle,
    cookie_jar,    \* self.cookie_jar: the jar object the session sends from
    \* a second BRAVScraper in the same process (SpecTwo)
    other,
    \* a module-level function applied to one argument: the argument and what
    \* its applications returned, in order
    callIn, callOut

crawlVars ==
    <<pc, phase, barIdx, rows, maxRecords, sidsVs, ids, total, first, fpVs,
      cards, cardIdx, totalWritten, err>>

histVars ==
    <<observed, lastX, fetchLog, writeLog, attempted, nSearch, nFetch, clean,
      sink>>

ajaxVars == <<ajaxIn, ajaxOut>>

reqVars ==
    <<rq, request_count, current_headers, current_proxy, header_cycle, proxy_cycle,
      cookie_jar, other>>

pageVars == <<pageIn, pageOut>>

callVars == <<callIn, callOut>>

vars == <<crawlVars, histVars, pageVars, ajaxVars, reqVars, callVars>>

(***************************  what the server may answer  ******************)
\* ViewState tokens the server hands out
Tokens == {<<"a">>, <<"b">>}

\* an opaque non-empty HTML fragment
Html == <<"a">>

Upd(id, payload) == <<[id |-> id, payload |-> payload]>>

VsUpd(t) == IF t = None THEN <<>> ELSE Upd(ViewStateId, t)

\* an update that is absent, present with an empty payload, or present with HTML
OptUpd(id, how) ==
    CASE how = "absent" -> <<>>
      [] how = "empty" -> Upd(id, <<>>)
      [] how = "html" -> Upd(id, Html)

Presence == {"absent", "empty", "html"}

\* bodies ajax() rejects: empty, a full page, an envelope that is not XML
BadBodies == {NoBody, FullPage, Envelope(0, FALSE, <<>>)}

\* what get_search_page + parse_search_ids yield: a page with its ViewState,
\* or an exception
PageLoads ==
    {[ok |-> TRUE, vs |-> t] : t \in Tokens} \cup {[ok |-> FALSE, vs |-> None]}

NoFrag == [grid |-> FALSE, src |-> FALSE, total |-> -1]

\* the totals a search may report; the default page size is checked against
\* the total of the end-to-end example
DefaultRows == 800
ExampleTotal == 1234
Totals == (0 .. MaxTotal) \cup (IF rows = DefaultRows THEN {ExampleTotal} ELSE {})

\* what _request returns or raises for one exchange, with what the extractors
\* read from the fragments it carries:
\*   frag   mainPageContent: DataGrid id found, updateDataResult source found,
\*          result count (-1: no phrasing matches)
\*   cards  resultForm: for each resultCard, whether it has a detail link
Resp(raise, body, frag, cs) ==
    [raise |-> raise, body |-> body, frag |-> frag, cards |-> cs]

TransportError == Resp(TRUE, NoBody, NoFrag, <<>>)

FailResps == {TransportError} \cup {Resp(FALSE, b, NoFrag, <<>>) : b \in BadBodies}

SearchResps ==
    FailResps
    \cup {Resp(FALSE, Envelope(0, TRUE, OptUpd(MainContentId, m) \o VsUpd(t)), NoFrag, <<>>) :
            m \in {"absent", "empty"}, t \in Tokens \cup {None}}
    \cup {Resp(FALSE, Envelope(0, TRUE, OptUpd(MainContentId, "html") \o VsUpd(t)),
               [grid |-> g, src |-> s, total |-> n], <<>>) :
            t \in Tokens \cup {None}, g \in BOOLEAN, s \in BOOLEAN,
            n \in {-1} \cup Totals}

PageChangeResps ==
    FailResps
    \cup {Resp(FALSE, Envelope(0, TRUE, VsUpd(t)), NoFrag, <<>>) : t \in Tokens \cup {None}}

CardLists == UNION {[1 .. n -> BOOLEAN] : n \in 0 .. MaxCards}

SearchUpd(how) == IF how = "absent" THEN <<>> ELSE Upd(how, Html)

RefreshResps ==
    FailResps
    \cup {Resp(FALSE,
               Envelope(0, TRUE, OptUpd(ResultFormId, r) \o SearchUpd(s) \o VsUpd(t)),
               NoFrag, IF r = "html" THEN cs ELSE <<>>) :
            r \in Presence, s \in {"absent", SearchFormId, SearchChildId},
            t \in Tokens \cup {None}, cs \in CardLists}

DetailResps ==
    FailResps
    \cup {Resp(FALSE, Envelope(0, TRUE, OptUpd(DetailFormId, d) \o VsUpd(t)), NoFrag, <<>>) :
            d \in Presence, t \in Tokens \cup {None}}


(***************************  main(): the crawl  ***************************)
NoExchange == [kind |-> "none", sent |-> None, expect |-> None]

CrawlIdle ==
    /\ pc = "start" /\ phase = "try" /\ barIdx = 0
    /\ sidsVs = None /\ ids = [viewstate |-> None, bar |-> 0]
    /\ total = 0 /\ first = 0 /\ fpVs = None
    /\ cards = <<>> /\ cardIdx = 1 /\ totalWritten = 0 /\ err = ""
    /\ observed = None /\ lastX = NoExchange
    /\ fetchLog = <<>> /\ writeLog = <<>> /\ attempted = {}
    /\ nSearch = 0 /\ nFetch = 0 /\ clean = TRUE
    /\ sink = <<>>

AjaxIdle == ajaxIn = [viewstate |-> <<>>, body |-> NoBody] /\ ajaxOut = Raise("pending")

PageIdle == pageIn = <<>> /\ pageOut = [outcome |-> "pending", html |-> <<>>]

CallIdle == callIn = <<>> /\ callOut = <<>>

ReqIdle ==
    /\ rq = [phase |-> "idle", attempt |-> 0, outcomes |-> <<>>, body |-> NoBody]
    /\ request_count = 0
    /\ current_headers = 0
    /\ current_proxy = 0
    /\ header_cycle = 1
    /\ proxy_cycle = 1
    /\ cookie_jar = 1
    /\ other = [request_count |-> 0, current_headers |-> 0, current_proxy |-> 0,
                cookie_jar |-> 2]

\* argparse: --rows and --max-records
Init ==
    /\ CrawlIdle
    /\ rows \in (0 .. MaxRows) \cup {DefaultRows}
    /\ maxRecords \in 0 .. MaxCap
    /\ PageIdle
    /\ AjaxIdle
    /\ ReqIdle
    /\ CallIdle

\* what does not change in a step of the crawl
Frame == UNCHANGED <<rows, maxRecords, pageVars, ajaxVars, reqVars, callVars>>

\* the step wrote nothing
Quiet == sink' = <<>>

\* the step made no exchange
Silent == Quiet /\ lastX' = NoExchange

\* an exception leaves main()
Abort(e) == pc' = "raised" /\ err' = e /\ clean' = FALSE /\ fetchLog' = <<>>

\* what one exchange yields: _request raised, or ajax() on the body it returned
Exchange(viewstate, resp) ==
    IF resp.raise THEN Raise("transport") ELSE Ajax(viewstate, resp.body)

\* the abstraction of _parse_cards that main() depends on: one card per
\* resultCard, with info_id when the card has a detail link
ParseCards(cs) ==
    [i \in DOMAIN cs |-> [name |-> i, info |-> cs[i], detail |-> "none"]]

\* main(): scraper.get_search_page() and parse_search_ids before the bar loop
MainStart ==
    /\ pc = "start"
    /\ \E pl \in PageLoads :
        IF pl.ok
        THEN /\ pc' = "load" /\ barIdx' = 1 /\ observed' = pl.vs
             /\ UNCHANGED <<err, clean, fetchLog>>
        ELSE /\ Abort("pageload") /\ UNCHANGED <<barIdx, observed>>
    /\ UNCHANGED <<phase, sidsVs, ids, total, first, fpVs, cards, cardIdx, totalWritten>>
    /\ UNCHANGED <<writeLog, attempted, nSearch, nFetch>>
    /\ Silent /\ Frame

\* ajax_search_by_bar, first half: get_search_page and parse_search_ids
LoadSearchPage ==
    /\ pc = "load"
    /\ attempted' = attempted \cup {barIdx}
    /\ nSearch' = IF phase = "research" THEN nSearch + 1 ELSE nSearch
    /\ \E pl \in PageLoads :
        IF pl.ok
        THEN /\ pc' = "search" /\ sidsVs' = pl.vs /\ observed' = pl.vs
             /\ UNCHANGED <<err, clean, fetchLog>>
        ELSE /\ Abort("pageload") /\ UNCHANGED <<sidsVs, observed>>
    /\ UNCHANGED <<phase, barIdx, ids, total, first, fpVs, cards, cardIdx, totalWritten>>
    /\ UNCHANGED <<writeLog, nFetch>>
    /\ Silent /\ Frame

\* ajax_search_by_bar after its exchange, then parse_result_ids and (on the
\* first search of a bar only) _extract_total_results
SearchOutcome(r, frag) ==
    CASE ~r.ok -> r.err
      [] Get(r.updates, MainContentId) = <<>> -> "nomain"
      [] ~(frag.grid /\ frag.src) -> "noids"
      [] phase = "try" /\ frag.total = -1 -> "nocount"
      [] OTHER -> "ok"

\* ajax_search_by_bar, second half: the search exchange; then main() builds
\* the ResultIds and, outside the except handler, reads the total
SearchExchange ==
    /\ pc = "search"
    /\ \E resp \in SearchResps :
        LET r == Exchange(sidsVs, resp)
            out == SearchOutcome(r, resp.frag)
        IN  /\ lastX' = [kind |-> "search", sent |-> sidsVs, expect |-> observed]
            /\ observed' = IF r.ok THEN r.viewstate ELSE observed
            /\ ids' = IF out \in {"ok", "nocount"}
                      THEN [viewstate |-> r.viewstate, bar |-> barIdx]
                      ELSE ids
            /\ IF out = "ok"
               THEN IF phase = "try"
                    THEN /\ total' = resp.frag.total /\ first' = 0 /\ pc' = "loop"
                         /\ UNCHANGED <<phase, err, clean, fetchLog>>
                    ELSE /\ phase' = "retry" /\ pc' = "page1"
                         /\ UNCHANGED <<total, first, err, clean, fetchLog>>
               ELSE /\ Abort(out) /\ UNCHANGED <<phase, total, first>>
    /\ sidsVs' = None
    /\ UNCHANGED <<barIdx, fpVs, cards, cardIdx, totalWritten>>
    /\ UNCHANGED <<writeLog, attempted, nSearch, nFetch>>
    /\ Quiet /\ Frame

InLoopInclusive(f, t) == f <= t

\* With page size 0 the loop of a bar has no last page.  Once more pages than
\* MaxTotal have been written the two logs of offsets stop growing and the
\* server answers with pages without cards, which keeps total_written bounded.
LogFull == rows = 0 /\ Len(writeLog) > MaxTotal

\* while first < total
InLoop(f, t) == f < t

\* while first < total: the loop is entered
EnterPage ==
    /\ pc = "loop"
    /\ InLoop(first, total)
    /\ pc' = "page1" /\ phase' = "try" /\ nSearch' = 0 /\ nFetch' = 0
    /\ cards' = <<>> /\ cardIdx' = 1
    /\ UNCHANGED <<barIdx, sidsVs, ids, total, first, fpVs, totalWritten, err>>
    /\ UNCHANGED <<observed, fetchLog, writeLog, attempted, clean>>
    /\ Silent /\ Frame

\* while first < total: the loop is left
Exhaust ==
    /\ pc = "loop"
    /\ ~InLoop(first, total)
    /\ pc' = "nextbar"
    /\ cards' = <<>> /\ cardIdx' = 1
    /\ UNCHANGED <<phase, barIdx, sidsVs, ids, total, first, fpVs, totalWritten, err>>
    /\ UNCHANGED <<observed, fetchLog, writeLog, attempted, nSearch, nFetch, clean>>
    /\ Silent /\ Frame

BarStartPaging == "page1"

\* the body of `for bar_label in wanted` starts with ajax_search_by_bar
BarStart == "load"

\* for bar_label in wanted: the next bar, or the end of main()
NextBar ==
    /\ pc = "nextbar"
    /\ IF barIdx < NumBars
       THEN /\ barIdx' = barIdx + 1 /\ pc' = BarStart
            /\ fetchLog' = <<>> /\ writeLog' = <<>> /\ clean' = TRUE
            /\ nSearch' = 0 /\ nFetch' = 0
       ELSE /\ pc' = "done"
            /\ UNCHANGED <<barIdx, fetchLog, writeLog, clean, nSearch, nFetch>>
    /\ UNCHANGED <<phase, sidsVs, ids, total, first, fpVs, cards, cardIdx, totalWritten, err>>
    /\ UNCHANGED <<observed, attempted>>
    /\ Silent /\ Frame

\* fetch_page, first exchange: the page-change event on the data grid
FetchPage1 ==
    /\ pc = "page1"
    /\ nFetch' = nFetch + 1
    /\ \E resp \in PageChangeResps :
        LET r == Exchange(ids.viewstate, resp)
        IN  /\ lastX' = [kind |-> "page", sent |-> ids.viewstate, expect |-> observed]
            /\ IF r.ok
               THEN /\ fpVs' = r.viewstate /\ observed' = r.viewstate /\ pc' = "page2"
                    /\ fetchLog' = IF clean /\ ~LogFull THEN Append(fetchLog, first)
                                   ELSE fetchLog
                    /\ UNCHANGED <<err, clean>>
               ELSE /\ Abort(r.err) /\ UNCHANGED <<fpVs, observed>>
    /\ UNCHANGED <<phase, barIdx, sidsVs, ids, total, first, cards, cardIdx, totalWritten>>
    /\ UNCHANGED <<writeLog, attempted, nSearch>>
    /\ Quiet /\ Frame

FetchPageOutcomeExact(updates) ==
    IF ResultFormId \in DOMAIN updates /\ updates[ResultFormId] # <<>> THEN "html"
    ELSE IF SearchFormId \in DOMAIN updates THEN "expired"
    ELSE "noresult"

\* fetch_page after its second exchange: the resultForm update is the page, an
\* update key that contains "searchForm" means the view expired
FetchPageOutcome(updates) ==
    IF Get(updates, ResultFormId) # <<>> THEN "html"
    ELSE IF \E k \in DOMAIN updates : ContainsSearchForm(k) THEN "expired"
    ELSE "noresult"

RecoversAlways(out) == out = "expired"

\* main(): the except handler re-searches on "JSF view expired", and only for
\* the fetch_page call of the try block
Recovers(out) == out = "expired" /\ phase = "try"

\* fetch_page, second exchange: the refresh of the result form; then main()
\* stores the ViewState, or re-searches, or lets the exception out
FetchPage2 ==
    /\ pc = "page2"
    /\ \E resp \in RefreshResps :
        LET r == Exchange(fpVs, resp)
            out == IF r.ok THEN FetchPageOutcome(r.updates) ELSE r.err
        IN  /\ LogFull => resp.cards = <<>>
            /\ lastX' = [kind |-> "refresh", sent |-> fpVs, expect |-> observed]
            /\ observed' = IF r.ok THEN r.viewstate ELSE observed
            /\ IF out = "html"
               THEN /\ ids' = [ids EXCEPT !.viewstate = r.viewstate]
                    /\ cards' = ParseCards(resp.cards) /\ cardIdx' = 1
                    /\ pc' = "details" /\ phase' = "try"
                    /\ UNCHANGED <<err, clean, fetchLog>>
               ELSE IF Recovers(out)
               THEN /\ phase' = "research" /\ pc' = "load"
                    /\ clean' = FALSE /\ fetchLog' = <<>>
                    /\ UNCHANGED <<ids, cards, cardIdx, err>>
               ELSE /\ Abort(out) /\ UNCHANGED <<ids, cards, cardIdx, phase>>
    /\ fpVs' = None
    /\ sink' = <<>>
    /\ UNCHANGED <<barIdx, sidsVs, total, first, totalWritten>>
    /\ UNCHANGED <<writeLog, attempted, nSearch, nFetch>>
    /\ Frame

\* the detail loop, a card without info_id: no exchange
SkipCard ==
    /\ pc = "details"
    /\ cardIdx <= Len(cards)
    /\ ~cards[cardIdx].info
    /\ cardIdx' = cardIdx + 1
    /\ UNCHANGED <<pc, phase, barIdx, sidsVs, ids, total, first, fpVs, cards,
                   totalWritten, err>>
    /\ UNCHANGED <<observed, fetchLog, writeLog, attempted, nSearch, nFetch, clean>>
    /\ Silent /\ Frame

DetailFailureRaises(good) == ~good

\* main(): `except Exception` around one card's detail fetch lets nothing out
DetailFailureAborts(good) == FALSE

\* the detail loop, a card with info_id: fetch_details and its one exchange;
\* ids.viewstate is assigned only when fetch_details returns
FetchDetails ==
    /\ pc = "details"
    /\ cardIdx <= Len(cards)
    /\ cards[cardIdx].info
    /\ \E resp \in DetailResps :
        LET r == Exchange(ids.viewstate, resp)
            good == r.ok /\ Get(r.updates, DetailFormId) # <<>>
        IN  /\ lastX' = [kind |-> "detail", sent |-> ids.viewstate, expect |-> observed]
            /\ observed' = IF r.ok THEN r.viewstate ELSE observed
            /\ IF DetailFailureAborts(good)
               THEN /\ Abort("detail") /\ UNCHANGED <<ids, cards, cardIdx>>
               ELSE /\ ids' = IF good THEN [ids EXCEPT !.viewstate = r.viewstate] ELSE ids
                    /\ cards' = [cards EXCEPT
                                   ![cardIdx].detail = IF good THEN "merged" ELSE "failed"]
                    /\ cardIdx' = cardIdx + 1
                    /\ UNCHANGED <<pc, err, clean, fetchLog>>
    /\ UNCHANGED <<phase, barIdx, sidsVs, total, first, fpVs, totalWritten>>
    /\ UNCHANGED <<writeLog, attempted, nSearch, nFetch>>
    /\ Quiet /\ Frame

CapExceeded(written) == maxRecords # 0 /\ written > maxRecords

\* args.max_records and total_written >= args.max_records
CapReached(written) == maxRecords # 0 /\ written >= maxRecords

NextOffsetSkipping(f) == f + 2 * rows

\* first += args.rows
NextOffset(f) == f + rows

\* after the detail loop: _write_csv, total_written, the record cap, first += rows
WritePage ==
    /\ pc = "details"
    /\ cardIdx > Len(cards)
    /\ sink' = cards
    /\ writeLog' = IF LogFull THEN writeLog ELSE Append(writeLog, first)
    /\ totalWritten' = totalWritten + Len(cards)
    /\ IF CapReached(totalWritten')
       THEN pc' = "stopped" /\ first' = first
       ELSE pc' = "loop" /\ first' = NextOffset(first)
    /\ lastX' = NoExchange
    /\ UNCHANGED <<phase, barIdx, sidsVs, ids, total, fpVs, cards, cardIdx, err>>
    /\ UNCHANGED <<observed, fetchLog, attempted, nSearch, nFetch, clean>>
    /\ Frame

Next ==
    \/ MainStart
    \/ LoadSearchPage
    \/ SearchExchange
    \/ EnterPage
    \/ Exhaust
    \/ NextBar
    \/ FetchPage1
    \/ FetchPage2
    \/ SkipCard
    \/ FetchDetails
    \/ WritePage

Spec == Init /\ [][Next]_vars

\* main() keeps running: every call returns or raises
SpecLive == Spec /\ WF_vars(Next)


(***************************  ajax() as a function  ************************)
AjaxChars == {" ", "a"}

AjaxPayloads == UNION {[1 .. n -> AjaxChars] : n \in 0 .. MaxLen}

AjaxIds == {OtherId, ViewStateId, ViewStateIdJavax}

AjaxUpdateSeqs ==
    UNION {[1 .. n -> [id : AjaxIds, payload : AjaxPayloads]] : n \in 0 .. MaxUpdates}

\* where the envelope marker may start: nowhere, at the start, at the last
\* index that keeps it inside the inspected prefix, and one past that
MarkerPositions == {-1, 0, PrefixLen - MarkerLen, PrefixLen - MarkerLen + 1}

AjaxBodies ==
    {NoBody, BlankBody}
    \cup {Envelope(m, FALSE, <<>>) : m \in MarkerPositions}
    \cup {Envelope(0, TRUE, us) : us \in AjaxUpdateSeqs}
    \cup {Envelope(m, TRUE, us) :
            m \in MarkerPositions \ {0}, us \in {<<>>, Upd(ViewStateId, <<"a">>)}}

\* the ViewState submitted: "" or a token
Submitted == {<<>>, <<"b">>}

InitAjax ==
    /\ ajaxIn \in [viewstate : Submitted, body : AjaxBodies]
    /\ ajaxOut = Raise("pending")
    /\ CrawlIdle /\ rows = 0 /\ maxRecords = 0
    /\ PageIdle
    /\ ReqIdle
    /\ CallIdle

\* ajax() validates and decodes the body _request returned
ApplyAjax ==
    /\ ajaxOut = Raise("pending")
    /\ ajaxOut' = Ajax(ajaxIn.viewstate, ajaxIn.body)
    /\ UNCHANGED <<ajaxIn, crawlVars, histVars, pageVars, reqVars, callVars>>

NextAjax == ApplyAjax

SpecAjax == InitAjax /\ [][NextAjax]_vars

(***************************  fetch_page on a refresh response  ************)
PageIds == {ResultFormId, SearchFormId, SearchChildId, OtherId}

PagePayloads == {<<>>, <<"a">>, <<"b">>}

PageUpdateSeqs ==
    UNION {[1 .. n -> [id : PageIds, payload : PagePayloads]] : n \in 0 .. MaxUpdates}

InitPage ==
    /\ pageIn \in PageUpdateSeqs
    /\ pageOut = [outcome |-> "pending", html |-> <<>>]
    /\ CrawlIdle /\ rows = 0 /\ maxRecords = 0
    /\ AjaxIdle
    /\ ReqIdle
    /\ CallIdle

\* fetch_page from the updates of its second exchange: the page it returns,
\* or the error it raises
FetchPageResult(updates) ==
    LET out == FetchPageOutcome(updates)
    IN  [outcome |-> out,
         html |-> IF out = "html" THEN Get(updates, ResultFormId) ELSE <<>>]

ApplyFetchPage ==
    /\ pageOut.outcome = "pending"
    /\ pageOut' = FetchPageResult(UpdatesOf(pageIn))
    /\ UNCHANGED <<pageIn, crawlVars, histVars, ajaxVars, reqVars, callVars>>

NextPage == ApplyFetchPage

SpecPage == InitPage /\ [][NextPage]_vars

(***************************  _request under ajax()  ***********************)
\* one HTTP attempt: session.request raises (connection error, timeout),
\* raise_for_status raises (error status), or the body is returned
ReqBodies ==
    {NoBody, BlankBody, FullPage, Envelope(0, TRUE, <<>>),
     Envelope(0, TRUE, Upd(ViewStateId, <<"a">>))}

AttemptResults ==
    {[res |-> "conn", body |-> NoBody], [res |-> "status", body |-> NoBody]}
    \cup {[res |-> "ok", body |-> b] : b \in ReqBodies}

InitReq ==
    /\ ReqIdle
    /\ CallIdle
    /\ CrawlIdle /\ rows = 0 /\ maxRecords = 0
    /\ PageIdle
    /\ AjaxIdle

\* _request before its loop: the request count and the identity rotation
\* (headers 0 are the instance's own, 1..4 those of HEADERS_LIST; proxy 0 is
\* the direct connection)
RotatesHeadersOneLate(n) == n % rotate_every = 1

\* if self.request_count % self.rotate_every == 0
RotatesHeaders(n) == n % rotate_every = 0

\* if self.request_count % (self.rotate_every * 3) == 0
RotatesProxy(n) == n % (rotate_every * 3) = 0

ReqBegin ==
    /\ rq.phase \in {"idle", "raised", "ajax_ok", "ajax_raised"}
    /\ request_count < MaxRequests
    /\ request_count' = request_count + 1
    /\ IF RotatesHeaders(request_count')
       THEN /\ current_headers' = header_cycle
            /\ header_cycle' = (header_cycle % NumHeaders) + 1
       ELSE UNCHANGED <<current_headers, header_cycle>>
    /\ IF RotatesProxy(request_count')
       THEN /\ current_proxy' = proxy_cycle
            /\ proxy_cycle' = (proxy_cycle % NumProxies) + 1
       ELSE UNCHANGED <<current_proxy, proxy_cycle>>
    /\ rq' = [phase |-> "attempt", attempt |-> 1, outcomes |-> <<>>, body |-> NoBody]
    /\ UNCHANGED <<cookie_jar, other>>
    /\ UNCHANGED <<crawlVars, histVars, pageVars, ajaxVars, callVars>>

OneMoreAttempt == max_retries + 1

\* for attempt in range(1, self.max_retries + 1)
AttemptLimit == max_retries

\* the except clause: requests.RequestException and OSError are retried
Retried(a) == a.res # "ok"

\* _request, one pass of its loop: one HTTP attempt; it returns the body,
\* goes on to the next attempt, or raises after the last one
ReqAttempt ==
    /\ rq.phase = "attempt"
    /\ \E a \in AttemptResults :
        LET log == Append(rq.outcomes,
                          [res |-> a.res, body |-> a.body, hdr |-> current_headers,
                           proxy |-> current_proxy, jar |-> cookie_jar])
        IN  rq' = IF ~Retried(a)
                  THEN [phase |-> "returned", attempt |-> rq.attempt, outcomes |-> log,
                        body |-> a.body]
                  ELSE IF rq.attempt < AttemptLimit
                  THEN [rq EXCEPT !.attempt = rq.attempt + 1, !.outcomes = log]
                  ELSE [rq EXCEPT !.phase = "raised", !.outcomes = log]
    /\ UNCHANGED <<request_count, current_headers, current_proxy, header_cycle,
                   proxy_cycle, cookie_jar, other>>
    /\ UNCHANGED <<crawlVars, histVars, pageVars, ajaxVars, callVars>>

\* ajax() after _request returned: it validates the body and returns or raises
AjaxValidate ==
    /\ rq.phase = "returned"
    /\ rq' = [rq EXCEPT !.phase = IF Ajax(<<"b">>, rq.body).ok THEN "ajax_ok"
                                  ELSE "ajax_raised"]
    /\ UNCHANGED <<request_count, current_headers, current_proxy, header_cycle,
                   proxy_cycle, cookie_jar, other>>
    /\ UNCHANGED <<crawlVars, histVars, pageVars, ajaxVars, callVars>>

NextReq ==
    \/ ReqBegin
    \/ ReqAttempt
    \/ AjaxValidate

SpecReq == InitReq /\ [][NextReq]_vars

(***************************  the response classifier  *********************)
\* everything but the function's argument and results is at rest
AllIdle ==
    /\ CrawlIdle /\ rows = 0 /\ maxRecords = 0
    /\ PageIdle
    /\ AjaxIdle
    /\ ReqIdle

\* _is_jsf_partial and _parse_partial_response on one body; ET.fromstring
\* raises on a body that is not well-formed XML
Classify(body) ==
    [partial |-> IsJsfPartial(body),
     raised |-> ~body.xmlOk,
     updates |-> IF body.xmlOk THEN ParsePartialResponse(body).updates ELSE <<>>,
     viewstate |-> IF body.xmlOk THEN ParsePartialResponse(body).viewstate ELSE None]

\* how often the classifier is applied to the same body
Applications == 2

InitParse ==
    /\ callIn \in AjaxBodies
    /\ callOut = <<>>
    /\ AllIdle

ApplyClassify ==
    /\ Len(callOut) < Applications
    /\ callOut' = Append(callOut, Classify(callIn))
    /\ UNCHANGED <<callIn, crawlVars, histVars, pageVars, ajaxVars, reqVars>>

NextParse == ApplyClassify

SpecParse == InitParse /\ [][NextParse]_vars

(***************************  _extract_viewstate_any  **********************)
\* A document as _extract_viewstate_any reads it: its body as the classifier
\* sees it, and for each hidden-field pattern the value captured by the first
\* match of re.search (None: the pattern matches nowhere). A capture is
\* [^"]+ and so never empty.
FieldValues == (AjaxPayloads \ {<<>>}) \cup {<<"b">>}

Captures == FieldValues \cup {None}

FullPageDocs ==
    {[body |-> b, jakarta |-> j, javax |-> x, byId |-> i] :
        b \in {FullPage, Envelope(PrefixLen - MarkerLen + 1, TRUE, <<>>)},
        j \in Captures, x \in Captures, i \in Captures}

PartialDocs ==
    {[body |-> b, jakarta |-> j, javax |-> None, byId |-> None] :
        b \in {Envelope(0, FALSE, <<>>)}
              \cup {Envelope(0, TRUE, Upd(OtherId, <<"a">>) \o Upd(ViewStateId, v)) :
                      v \in AjaxPayloads}
              \cup {Envelope(0, TRUE, Upd(OtherId, <<"a">>))},
        j \in {None, <<"b">>}}

Returned(v) == [ok |-> TRUE, value |-> v, err |-> ""]

Raised(e) == [ok |-> FALSE, value |-> None, err |-> e]

FirstCaptureJavaxFirst(doc) ==
    IF doc.javax # None THEN doc.javax
    ELSE IF doc.jakarta # None THEN doc.jakarta
    ELSE doc.byId

\* the loop over the three patterns: the capture of the first pattern, in the
\* order of the tuple, that matches anywhere in the document
FirstCapture(doc) ==
    IF doc.jakarta # None THEN doc.jakarta
    ELSE IF doc.javax # None THEN doc.javax
    ELSE doc.byId

\* _extract_viewstate_any
ExtractViewStateAny(doc) ==
    IF IsJsfPartial(doc.body)
    THEN IF ~doc.body.xmlOk THEN Raised("xmlparse")
         ELSE LET p == ParsePartialResponse(doc.body)
              IN  IF Truthy(p.viewstate) THEN Returned(p.viewstate)
                  ELSE Raised("noviewstate")
    ELSE IF FirstCapture(doc) # None THEN Returned(Strip(FirstCapture(doc)))
    ELSE Raised("notfound")

InitVs ==
    /\ callIn \in FullPageDocs \cup PartialDocs
    /\ callOut = <<>>
    /\ AllIdle

ApplyExtractViewState ==
    /\ callOut = <<>>
    /\ callOut' = <<ExtractViewStateAny(callIn)>>
    /\ UNCHANGED <<callIn, crawlVars, histVars, pageVars, ajaxVars, reqVars>>

NextVs == ApplyExtractViewState

SpecVs == InitVs /\ [][NextVs]_vars

(***************************  _extract_total_results  **********************)
\* The text of a results fragment after the markup is replaced by blanks and
\* the whitespace collapsed, as the three patterns read it: for each phrasing
\* the characters that follow it at its first occurrence, up to the next
\* blank (None: the phrasing does not occur).
Digits == {"0", "1", "2", "3", "4"}

DigitValue(c) ==
    CASE c = "0" -> 0 [] c = "1" -> 1 [] c = "2" -> 2 [] c = "3" -> 3 [] c = "4" -> 4

NumChars == {"0", "1", ".", ","}

NumTexts ==
    UNION {[1 .. n -> NumChars] : n \in 1 .. MaxNumLen}
    \cup {<<"1", ".", "2", "3", "4">>, <<"1", ",", "2", "3", "4">>, <<"1", "2", "3", "4">>}

Elsewhere == {None, <<"2">>}

TotalTexts ==
    {[en |-> t, de |-> a, range |-> b] : t \in NumTexts, a \in Elsewhere, b \in Elsewhere}
    \cup {[en |-> a, de |-> t, range |-> b] : t \in NumTexts, a \in Elsewhere, b \in Elsewhere}
    \cup {[en |-> a, de |-> b, range |-> t] : t \in NumTexts, a \in Elsewhere, b \in Elsewhere}
    \cup {[en |-> None, de |-> None, range |-> None]}

\* ([0-9][0-9\.]*): the longest run of digits and dots, if it begins with a
\* digit; <<>> when the pattern does not match here
RECURSIVE DigitsAndDots(_)
DigitsAndDots(t) ==
    IF t # <<>> /\ Head(t) \in Digits \cup {"."}
    THEN <<Head(t)>> \o DigitsAndDots(Tail(t))
    ELSE <<>>

CountGroup(t) ==
    IF t # None /\ t # <<>> /\ Head(t) \in Digits THEN DigitsAndDots(t) ELSE <<>>

\* .replace(".", "")
RECURSIVE WithoutDots(_)
WithoutDots(t) ==
    IF t = <<>> THEN <<>>
    ELSE IF Head(t) = "." THEN WithoutDots(Tail(t))
    ELSE <<Head(t)>> \o WithoutDots(Tail(t))

\* int() of a string of decimal digits
RECURSIVE ToInt(_)
ToInt(t) ==
    IF t = <<>> THEN 0
    ELSE 10 * ToInt(SubSeq(t, 1, Len(t) - 1)) + DigitValue(t[Len(t)])

\* _extract_total_results: the patterns in the order of the tuple
ExtractTotalResults(text) ==
    IF CountGroup(text.en) # <<>> THEN Returned(ToInt(WithoutDots(CountGroup(text.en))))
    ELSE IF CountGroup(text.de) # <<>>
    THEN Returned(ToInt(WithoutDots(CountGroup(text.de))))
    ELSE IF CountGroup(text.range) # <<>>
    THEN Returned(ToInt(WithoutDots(CountGroup(text.range))))
    ELSE Raised("nocount")

InitTotal ==
    /\ callIn \in TotalTexts
    /\ callOut = <<>>
    /\ AllIdle

ApplyExtractTotal ==
    /\ callOut = <<>>
    /\ callOut' = <<ExtractTotalResults(callIn)>>
    /\ UNCHANGED <<callIn, crawlVars, histVars, pageVars, ajaxVars, reqVars>>

NextTotal == ApplyExtractTotal

SpecTotal == InitTotal /\ [][NextTotal]_vars

(***************************  _parse_cards  ********************************)
\* The text of a line, by character class: "d" a decimal digit, " " a blank,
\* "x" any other character. The lines _ResultCardParser collects are cleaned
\* and non-empty.
TitleLine == <<"x">>

StreetLine == <<"x", " ", "d">>

ZipCityLine == <<"d", "d", "d", "d", "d", " ", "x">>

\* lines that come close to a postal code and city
BareZipLine == <<"d", "d", "d", "d", "d">>

SixDigitLine == <<"d", "d", "d", "d", "d", "d", " ", "x">>

CardLines ==
    {TitleLine, StreetLine, ZipCityLine, BareZipLine, SixDigitLine}

\* parser.cards: each card's header, lines and (when it has a detail link)
\* info_id
ParsedCards ==
    {[header |-> h, lis |-> l, info |-> i] :
        h \in {<<>>, <<"x">>},
        l \in UNION {[1 .. n -> CardLines] : n \in 0 .. MaxLines},
        i \in {None, <<"x">>}}

OtherCard == [header |-> <<"x", "x">>, lis |-> <<TitleLine, ZipCityLine>>, info |-> None]

CardPages ==
    {<<>>} \cup {<<c>> : c \in ParsedCards}
    \cup {<<c, OtherCard>> : c \in ParsedCards}
    \cup {<<OtherCard, c>> : c \in ParsedCards}

\* re.match(r"^\d{5}\s+.+$", line) on a cleaned line
IsZipCity(line) ==
    /\ Len(line) >= 7
    /\ \A i \in 1 .. 5 : line[i] = "d"
    /\ line[6] = " "

\* " | ".join(lines)
RECURSIVE JoinLines(_)
JoinLines(lines) ==
    IF lines = <<>> THEN <<>>
    ELSE IF Len(lines) = 1 THEN lines[1]
    ELSE lines[1] \o <<" ", "|", " ">> \o JoinLines(Tail(lines))

\* rest after the postal line is taken off
WithoutZipCity(rest) ==
    IF rest # <<>> /\ IsZipCity(rest[Len(rest)])
    THEN SubSeq(rest, 1, Len(rest) - 1) ELSE rest

StreetOfFirst(rest) ==
    IF rest = <<>> THEN <<>> ELSE rest[1]

\* street = rest[0] for one line, rest[-1] for two or more
StreetOf(rest) ==
    IF rest = <<>> THEN <<>> ELSE rest[Len(rest)]

\* office = " | ".join(rest[:-1]).strip() for two or more lines
OfficeOf(rest) ==
    IF Len(rest) >= 2 THEN Strip(JoinLines(SubSeq(rest, 1, Len(rest) - 1))) ELSE <<>>

\* the body of the loop of _parse_cards: one card_dict
CardDict(card) ==
    LET lis == card.lis
        rest == IF lis = <<>> THEN <<>> ELSE Tail(lis)
        zipped == rest # <<>> /\ IsZipCity(rest[Len(rest)])
        last == IF zipped THEN rest[Len(rest)] ELSE <<>>
        left == WithoutZipCity(rest)
    IN  [name |-> card.header,
         professional_title |-> IF lis = <<>> THEN <<>> ELSE lis[1],
         office |-> OfficeOf(left),
         street |-> StreetOf(left),
         zip |-> IF zipped THEN SubSeq(last, 1, 5) ELSE <<>>,
         city |-> IF zipped THEN Strip(SubSeq(last, 7, Len(last))) ELSE <<>>,
         zip_city_raw |-> last,
         info_id |-> card.info]

\* _parse_cards on the cards the parser collected
ParseCardList(cs) == [i \in DOMAIN cs |-> CardDict(cs[i])]

InitCards ==
    /\ callIn \in CardPages
    /\ callOut = <<>>
    /\ AllIdle

ApplyParseCards ==
    /\ callOut = <<>>
    /\ callOut' = <<ParseCardList(callIn)>>
    /\ UNCHANGED <<callIn, crawlVars, histVars, pageVars, ajaxVars, reqVars>>

NextCards == ApplyParseCards

SpecCards == InitCards /\ [][NextCards]_vars

(***************************  _extract_select_options  *********************)
\* re.sub(r"\s+", " ", text.strip()): runs of whitespace become one blank
RECURSIVE Collapse(_)
Collapse(t) ==
    IF t = <<>> THEN <<>>
    ELSE IF Head(t) = " " /\ Tail(t) # <<>> /\ Head(Tail(t)) = " " THEN Collapse(Tail(t))
    ELSE <<Head(t)>> \o Collapse(Tail(t))

\* _clean
Clean(t) == Collapse(Strip(t))

\* the text of an <option> as written, and its value attribute
OptionLabels == {<<>>, <<"a">>, <<" ", "a">>, <<"b">>, <<"a", " ", " ", "b">>, <<"a", " ", "b">>}

OptionValues == {<<>>, <<"1">>, <<"2">>, <<" ", "3">>}

\* the <option> elements of the selector, in document order
OptionLists ==
    UNION {[1 .. n -> [label : OptionLabels, value : OptionValues]] :
            n \in 0 .. MaxOptions}

\* self.options[label] = self.current_value
SetOption(options, label, value) ==
    [l \in DOMAIN options \cup {label} |-> IF l = label THEN value ELSE options[l]]

\* _SelectParser over the first k options: handle_endtag("option") stores the
\* option when its cleaned label and its stripped value are both non-empty
RECURSIVE SelectOptions(_, _)
SelectOptions(opts, k) ==
    IF k = 0 THEN <<>>
    ELSE LET before == SelectOptions(opts, k - 1)
             label == Clean(opts[k].label)
             value == Strip(opts[k].value)
         IN  IF label # <<>> /\ value # <<>> THEN SetOption(before, label, value)
             ELSE before

\* _extract_select_options
ExtractSelectOptions(opts) ==
    LET options == SelectOptions(opts, Len(opts))
    IN  IF DOMAIN options = {} THEN Raised("noselect") ELSE Returned(options)

InitSelect ==
    /\ callIn \in OptionLists
    /\ callOut = <<>>
    /\ AllIdle

ApplyExtractSelect ==
    /\ callOut = <<>>
    /\ callOut' = <<ExtractSelectOptions(callIn)>>
    /\ UNCHANGED <<callIn, crawlVars, histVars, pageVars, ajaxVars, reqVars>>

NextSelect == ApplyExtractSelect

SpecSelect == InitSelect /\ [][NextSelect]_vars

(***************************  the form ajax() submits  *********************)
\* Field names and values are strings; NoArg is None for an optional argument.
NoArg == "<None>"

AjaxMarkerKey == "jakarta.faces.partial.ajax"
SourceKey == "jakarta.faces.source"
ExecuteKey == "jakarta.faces.partial.execute"
RenderKey == "jakarta.faces.partial.render"
BehaviorEventKey == "jakarta.faces.behavior.event"
PartialEventKey == "jakarta.faces.partial.event"
ViewStateKey == "jakarta.faces.ViewState"

\* data[key] = value
Put(data, key, value) ==
    [k \in DOMAIN data \cup {key} |-> IF k = key THEN value ELSE data[k]]

\* the empty dict
EmptyDict == [k \in {} |-> ""]

\* the extra fields a caller may pass: a dict over these keys, None included
ExtraKeys == {"searchForm:ddRAKammer_input", "grid_first", ViewStateKey, ExecuteKey, "resultForm"}

ExtraDicts == UNION {[K -> {"x"}] : K \in SUBSET ExtraKeys}

AjaxCalls ==
    [form_id : {"resultForm"},
     viewstate : {"vs"},
     source_id : {"resultForm", "resultForm:grid"},
     execute : {NoArg, "", "resultForm"},
     render : {NoArg, "", "mainPageContent"},
     behavior_event : {NoArg, "", "page"},
     extra : ExtraDicts]

WithExtraUnderDefaults(data, extra) ==
    [k \in DOMAIN data \cup DOMAIN extra |-> IF k \in DOMAIN data THEN data[k] ELSE extra[k]]

\* data.update(extra)
WithExtra(data, extra) ==
    [k \in DOMAIN data \cup DOMAIN extra |-> IF k \in DOMAIN extra THEN extra[k] ELSE data[k]]

\* the dict `data` that ajax() builds and hands to _request
AjaxForm(call) ==
    LET d1 == Put(Put(Put(Put(EmptyDict, call.form_id, call.form_id),
                          AjaxMarkerKey, "true"),
                      SourceKey, call.source_id),
                  ExecuteKey,
                  IF call.execute # NoArg THEN call.execute ELSE call.source_id)
        d2 == IF call.render # NoArg THEN Put(d1, RenderKey, call.render) ELSE d1
        d3 == IF call.behavior_event \notin {NoArg, ""}
              THEN Put(Put(d2, BehaviorEventKey, call.behavior_event),
                       PartialEventKey, call.behavior_event)
              ELSE d2
        d4 == Put(Put(d3, call.source_id, call.source_id), ViewStateKey, call.viewstate)
    IN  WithExtra(d4, call.extra)

InitForm ==
    /\ callIn \in AjaxCalls
    /\ callOut = <<>>
    /\ AllIdle

ApplyAjaxForm ==
    /\ callOut = <<>>
    /\ callOut' = <<AjaxForm(callIn)>>
    /\ UNCHANGED <<callIn, crawlVars, histVars, pageVars, ajaxVars, reqVars>>

NextForm == ApplyAjaxForm

SpecForm == InitForm /\ [][NextForm]_vars

(***************************  parse_search_ids  *****************************)
\* A search page as parse_search_ids reads it: the hidden ViewState field
\* (None when the page has none), the name attribute that ends in
\* ddLanguage_input and the one that ends in ddRAKammer_input (None when no
\* attribute does), the <option> elements inside the <select> whose id is
\* searchForm:ddRAKammer_input (none when the page has no such select), and
\* the elements that carry an id followed by an onclick attribute, in document
\* order: `ab` says that the onclick calls PrimeFaces.ab, `target` that it
\* holds u:&quot;mainPageContent&quot;.
LangNames == {None, <<"searchForm:ddLanguage_input">>}

BarNames == {None, <<"searchForm:ddRAKammer_input">>, <<"j_idt9:ddRAKammer_input">>}

BarOptionLists ==
    {<<>>,
     <<[label |-> <<>>, value |-> <<"1">>]>>,
     <<[label |-> <<"a">>, value |-> <<"1">>], [label |-> <<"b">>, value |-> <<"2">>]>>}

ClickElements == [id : {<<"j_idt1">>, <<"j_idt2">>}, ab : BOOLEAN, target : BOOLEAN]

SearchPages ==
    [viewstate : {None, <<"a">>},
     lang : LangNames,
     bar : BarNames,
     options : BarOptionLists,
     elements : UNION {[1 .. n -> ClickElements] : n \in 0 .. MaxElements}]

\* "PrimeFaces.ab" in onclick and 'u:&quot;mainPageContent&quot;' in onclick
IsSearchButton(e) == e.ab /\ e.target

RECURSIVE SearchButtonLast(_, _)
SearchButtonLast(es, i) ==
    IF i > Len(es) THEN None
    ELSE LET later == SearchButtonLast(es, i + 1)
         IN  IF later # None THEN later
             ELSE IF IsSearchButton(es[i]) THEN es[i].id
             ELSE None

\* the for loop over re.finditer from the i-th match on: the id of the first
\* match that passes the test, None when the loop ends without a break
RECURSIVE SearchButton(_, _)
SearchButton(es, i) ==
    IF i > Len(es) THEN None
    ELSE IF IsSearchButton(es[i]) THEN es[i].id
    ELSE SearchButton(es, i + 1)

\* parse_search_ids
ParseSearchIds(page) ==
    LET vs == ExtractViewStateAny([body |-> FullPage, jakarta |-> page.viewstate,
                                   javax |-> None, byId |-> None])
        opts == ExtractSelectOptions(page.options)
        button == SearchButton(page.elements, 1)
    IN  IF ~vs.ok THEN vs
        ELSE IF page.bar = None THEN Raised("nobar")
        ELSE IF ~opts.ok THEN opts
        ELSE IF button = None THEN Raised("nobutton")
        ELSE Returned([form_id |-> <<"searchForm">>,
                       viewstate |-> vs.value,
                       lang_name |-> page.lang,
                       bar_name |-> page.bar,
                       search_button_id |-> button,
                       bar_options |-> opts.value])

InitSids ==
    /\ callIn \in SearchPages
    /\ callOut = <<>>
    /\ AllIdle

ApplyParseSearchIds ==
    /\ callOut = <<>>
    /\ callOut' = <<ParseSearchIds(callIn)>>
    /\ UNCHANGED <<callIn, crawlVars, histVars, pageVars, ajaxVars, reqVars>>

NextSids == ApplyParseSearchIds

SpecSids == InitSids /\ [][NextSids]_vars

(***************************  fetch_page and its two exchanges  ************)
\* str() of a non-negative int
DigitStr == <<"0", "1", "2", "3", "4", "5", "6", "7", "8", "9">>

RECURSIVE Str(_)
Str(n) == IF n < 10 THEN DigitStr[n + 1] ELSE Str(n \div 10) \o DigitStr[(n % 10) + 1]

PageNumberOneBased(f, r) == IF r # 0 THEN (f \div r) + 1 ELSE 0

\* first // rows if rows else 0
PageNumber(f, r) == IF r # 0 THEN f \div r ELSE 0

\* extra_page
ExtraPage(datagrid_id, f, r) ==
    LET k(suffix) == datagrid_id \o suffix
    IN  Put(Put(Put(Put(Put(EmptyDict,
            k("_pagination"), "true"),
            k("_first"), Str(f)),
            k("_rows"), Str(r)),
            k("_page"), Str(PageNumber(f, r))),
            k("_encodeFeature"), "true")

\* the ResultIds and arguments fetch_page is called with
FetchCalls ==
    [ids : [form_id : {ResultFormId},
            viewstate : Tokens,
            datagrid_id : {"resultForm:dataGrid", "resultForm:j_idt9"},
            update_data_result_source : {"resultForm:j_idt271"}],
     first : 0 .. MaxFirst,
     rows : 0 .. MaxRows]

\* one self.ajax(...) call of fetch_page: its arguments, the form it posts and
\* what it returns or raises for the response
AjaxCall(call, resp) ==
    [call |-> call, form |-> AjaxForm(call), r |-> Exchange(call.viewstate, resp)]

InitFetch ==
    /\ callIn \in FetchCalls
    /\ callOut = <<>>
    /\ AllIdle

\* fetch_page up to the return of its first self.ajax: the page-change event
FetchPageChange ==
    /\ callOut = <<>>
    /\ \E resp \in PageChangeResps :
        callOut' = <<AjaxCall([form_id |-> callIn.ids.form_id,
                               viewstate |-> callIn.ids.viewstate,
                               source_id |-> callIn.ids.datagrid_id,
                               execute |-> callIn.ids.datagrid_id,
                               render |-> NoArg,
                               extra |-> ExtraPage(callIn.ids.datagrid_id,
                                                   callIn.first, callIn.rows),
                               behavior_event |-> "page"], resp)>>
    /\ UNCHANGED <<callIn, crawlVars, histVars, pageVars, ajaxVars, reqVars>>

\* fetch_page from there to its end: the refresh exchange, reached only when
\* the first self.ajax returned, and the reading of the resultForm update
FetchPageRefresh ==
    /\ Len(callOut) = 1
    /\ callOut[1].r.ok
    /\ \E resp \in RefreshResps :
        LET c == AjaxCall([form_id |-> callIn.ids.form_id,
                           viewstate |-> callOut[1].r.viewstate,
                           source_id |-> callIn.ids.update_data_result_source,
                           execute |-> callIn.ids.form_id,
                           render |-> callIn.ids.form_id,
                           extra |-> ExtraPage(callIn.ids.datagrid_id,
                                               callIn.first, callIn.rows),
                           behavior_event |-> NoArg], resp)
        IN  callOut' = Append(callOut, c)
    /\ UNCHANGED <<callIn, crawlVars, histVars, pageVars, ajaxVars, reqVars>>

NextFetch == FetchPageChange \/ FetchPageRefresh

SpecFetch == InitFetch /\ [][NextFetch]_vars

(***************************  the search transition  ***********************)
\* the SearchIds and the bar value ajax_search_by_bar works with
SearchCalls ==
    [sids : [form_id : {SearchFormId},
             viewstate : Tokens,
             lang_name : {NoArg, "searchForm:ddLanguage_input"},
             bar_name : {"searchForm:ddRAKammer_input"},
             search_button_id : {"searchForm:j_idt1", "searchForm:j_idt2"}],
     bar_value : {"1", "2"}]

\* what the two extractors find in a fragment: the id of the DataGrid widget
\* and the source of updateDataResult, NoArg where the pattern does not match
FoundIds ==
    [datagrid_id : {NoArg, "resultForm:dataGrid", "resultForm:j_idt9"},
     update_data_result_source : {NoArg, "resultForm:j_idt271"}]

SearchExtraWithLanguage(sids, bar_value, language) ==
    Put(Put(EmptyDict, sids.bar_name, bar_value), sids.lang_name, language)

\* extra = {sids.bar_name: bar_value}; if sids.lang_name: extra[...] = language
SearchExtra(sids, bar_value, language) ==
    IF sids.lang_name \notin {NoArg, ""}
    THEN Put(Put(EmptyDict, sids.bar_name, bar_value), sids.lang_name, language)
    ELSE Put(EmptyDict, sids.bar_name, bar_value)

\* parse_result_ids with _extract_datagrid_id and _extract_updateDataResult_source
ParseResultIds(found, viewstate) ==
    IF found.datagrid_id = NoArg THEN Raised("nogrid")
    ELSE IF found.update_data_result_source = NoArg THEN Raised("nosource")
    ELSE Returned([form_id |-> ResultFormId,
                   viewstate |-> viewstate,
                   datagrid_id |-> found.datagrid_id,
                   update_data_result_source |-> found.update_data_result_source])

\* ajax_search_by_bar after parse_search_ids, then parse_result_ids in main()
SearchTransition(call, resp, found) ==
    LET c == AjaxCall([form_id |-> call.sids.form_id,
                       viewstate |-> call.sids.viewstate,
                       source_id |-> call.sids.search_button_id,
                       execute |-> call.sids.form_id,
                       render |-> MainContentId,
                       extra |-> SearchExtra(call.sids, call.bar_value, "en"),
                       behavior_event |-> "click"], resp)
    IN  [exchanges |-> <<c>>,
         found |-> found,
         result |-> IF ~c.r.ok THEN Raised(c.r.err)
                    ELSE IF Get(c.r.updates, MainContentId) = <<>> THEN Raised("nomain")
                    ELSE ParseResultIds(found, c.r.viewstate)]

InitSearch ==
    /\ callIn \in SearchCalls
    /\ callOut = <<>>
    /\ AllIdle

ApplySearch ==
    /\ callOut = <<>>
    /\ \E resp \in SearchResps, found \in FoundIds :
        /\ (resp.frag.grid <=> found.datagrid_id # NoArg)
        /\ (resp.frag.src <=> found.update_data_result_source # NoArg)
        /\ callOut' = <<SearchTransition(callIn, resp, found)>>
    /\ UNCHANGED <<callIn, crawlVars, histVars, pageVars, ajaxVars, reqVars>>

NextSearch == ApplySearch

SpecSearch == InitSearch /\ [][NextSearch]_vars

(***************************  get_search_page  ******************************)
\* the candidate URLs, in the order of the list
NumCandidates == 4

\* what _request yields for the GET of one candidate: it raises (every
\* attempt failed), or returns a text: a partial-response envelope, or a
\* document with or without id="searchForm" and with or without a ViewState
\* field
CandidateAnswers ==
    {[raise |-> TRUE, hasForm |-> FALSE,
      doc |-> [body |-> NoBody, jakarta |-> None, javax |-> None, byId |-> None]]}
    \cup {[raise |-> FALSE, hasForm |-> TRUE,
           doc |-> [body |-> Envelope(0, TRUE, <<>>), jakarta |-> <<"a">>,
                    javax |-> None, byId |-> None]]}
    \cup {[raise |-> FALSE, hasForm |-> f,
           doc |-> [body |-> FullPage, jakarta |-> None, javax |-> v, byId |-> None]] :
            f \in BOOLEAN, v \in {None, <<"a">>}}

\* the body of the for loop for one candidate
TryCandidate(answer) ==
    IF answer.raise THEN "raised"
    ELSE IF IsJsfPartial(answer.doc.body) THEN "continue"
    ELSE IF ~answer.hasForm THEN "continue"
    ELSE IF ~ExtractViewStateAny(answer.doc).ok THEN "continue"
    ELSE "returned"

InitLoad ==
    /\ callIn \in [1 .. NumCandidates -> CandidateAnswers]
    /\ callOut = <<>>
    /\ AllIdle

\* get_search_page has not returned or raised
Loading == IF callOut = <<>> THEN TRUE ELSE callOut[Len(callOut)] = "continue"

\* one pass of `for url in candidates`
GetCandidate ==
    /\ Loading
    /\ Len(callOut) < NumCandidates
    /\ callOut' = Append(callOut, TryCandidate(callIn[Len(callOut) + 1]))
    /\ UNCHANGED <<callIn, crawlVars, histVars, pageVars, ajaxVars, reqVars>>

\* the raise after the loop
NoCandidateLeft ==
    /\ Loading
    /\ Len(callOut) = NumCandidates
    /\ callOut' = Append(callOut, "raised")
    /\ UNCHANGED <<callIn, crawlVars, histVars, pageVars, ajaxVars, reqVars>>

NextLoad == GetCandidate \/ NoCandidateLeft

SpecLoad == InitLoad /\ [][NextLoad]_vars

(***************************  fetch_details  ********************************)
\* the arguments main() calls fetch_details with; form_id keeps its default
DetailCalls ==
    [info_button_id : {"resultForm:dataGrid:" \o Str(i) \o ":j_idt5" : i \in 0 .. MaxFirst},
     viewstate : Tokens,
     form_id : {ResultFormId}]

DetailArgsExecuteForm(call) ==
    [form_id |-> call.form_id, viewstate |-> call.viewstate,
     source_id |-> call.info_button_id, execute |-> call.form_id,
     render |-> DetailFormId, extra |-> EmptyDict, behavior_event |-> NoArg]

\* the arguments of fetch_details' self.ajax call
DetailArgs(call) ==
    [form_id |-> call.form_id, viewstate |-> call.viewstate,
     source_id |-> call.info_button_id, execute |-> NoArg,
     render |-> DetailFormId, extra |-> EmptyDict, behavior_event |-> NoArg]

\* fetch_details, and what main() then holds in ids.viewstate
FetchDetailsResult(call, resp) ==
    LET c == AjaxCall(DetailArgs(call), resp)
        detail_html == IF c.r.ok THEN Get(c.r.updates, DetailFormId) ELSE <<>>
        result == IF ~c.r.ok THEN Raised(c.r.err)
                  ELSE IF detail_html = <<>> THEN Raised("nodetail")
                  ELSE Returned([detail_html |-> detail_html, viewstate |-> c.r.viewstate])
    IN  [exchanges |-> <<c>>,
         result |-> result,
         ids_viewstate |-> IF result.ok THEN result.value.viewstate ELSE call.viewstate]

InitDetail ==
    /\ callIn \in DetailCalls
    /\ callOut = <<>>
    /\ AllIdle

ApplyFetchDetails ==
    /\ callOut = <<>>
    /\ \E resp \in DetailResps : callOut' = <<FetchDetailsResult(callIn, resp)>>
    /\ UNCHANGED <<callIn, crawlVars, histVars, pageVars, ajaxVars, reqVars>>

NextDetail == ApplyFetchDetails

SpecDetail == InitDetail /\ [][NextDetail]_vars

(***************************  _extract_details  *****************************)
\* A cssRow block as the three patterns see it: the text of its <label>
\* (NoArg when the block has none) and the markup inside its value container
\* as the pieces of text between tags (None when the block has no container).
\* "N" is the text No Information.
RowLabels == {NoArg, ":", "E-Mail:", "Email", "Telephone:"}

RowValues ==
    {None, <<>>, << <<"N">> >>, << <<" ", "x">> >>, << <<"y">>, <<" ">>, <<"x">> >>}

DetailRows ==
    UNION {[1 .. n -> [label : RowLabels, value : RowValues]] : n \in 0 .. MaxDetailRows}

\* _clean(label).rstrip(":"), lowered, hyphens removed, blanks to underscores,
\* then looked up in label_map
DetailKey(label) ==
    CASE label = ":" -> ""
      [] label \in {"E-Mail:", "Email"} -> "email"
      [] label = "Telephone:" -> "telephone"

\* tags become line breaks, the stripped non-empty lines are joined by blanks
RECURSIVE ValueLines(_)
ValueLines(pieces) ==
    IF pieces = <<>> THEN <<>>
    ELSE LET line == Strip(Head(pieces))
             rest == ValueLines(Tail(pieces))
         IN  IF line = <<>> THEN rest
             ELSE IF rest = <<>> THEN line
             ELSE line \o <<" ">> \o rest

ValueText(pieces) == Clean(ValueLines(pieces))

SetDetail(details, key, value) ==
    [k \in DOMAIN details \cup {key} |-> IF k = key THEN value ELSE details[k]]

\* if key not in details: details[key] = value_text
SetDetailOnce(details, key, value) ==
    [k \in DOMAIN details \cup {key} |-> IF k \in DOMAIN details THEN details[k] ELSE value]

\* _extract_details over the first k rows
RECURSIVE ExtractDetails(_, _)
ExtractDetails(rs, k) ==
    IF k = 0 THEN <<>>
    ELSE LET details == ExtractDetails(rs, k - 1)
             row == rs[k]
         IN  IF row.label = NoArg THEN details
             ELSE IF DetailKey(row.label) = "" THEN details
             ELSE IF row.value = None THEN details
             ELSE IF ValueText(row.value) # <<>> /\ ValueText(row.value) # <<"N">>
                  THEN SetDetailOnce(details, DetailKey(row.label), ValueText(row.value))
             ELSE details

InitDetails ==
    /\ callIn \in DetailRows
    /\ callOut = <<>>
    /\ AllIdle

ApplyExtractDetails ==
    /\ callOut = <<>>
    /\ callOut' = <<ExtractDetails(callIn, Len(callIn))>>
    /\ UNCHANGED <<callIn, crawlVars, histVars, pageVars, ajaxVars, reqVars>>

NextDetails == ApplyExtractDetails

SpecDetails == InitDetails /\ [][NextDetails]_vars

(***************************  two instances in one process  ****************)
\* _request of a second BRAVScraper: its own request count and identity, and
\* the module-level header_cycle and proxy_cycle that every instance draws
\* from; its HTTP attempts touch nothing of the first instance
OtherRequest ==
    /\ other.request_count < MaxOther
    /\ LET n == other.request_count + 1
       IN  /\ other' = [other EXCEPT
                          !.request_count = n,
                          !.current_headers = IF RotatesHeaders(n) THEN header_cycle ELSE @,
                          !.current_proxy = IF RotatesProxy(n) THEN proxy_cycle ELSE @]
           /\ header_cycle' = IF RotatesHeaders(n)
                              THEN (header_cycle % NumHeaders) + 1 ELSE header_cycle
           /\ proxy_cycle' = IF RotatesProxy(n)
                             THEN (proxy_cycle % NumProxies) + 1 ELSE proxy_cycle
    /\ UNCHANGED <<rq, request_count, current_headers, current_proxy, cookie_jar>>
    /\ UNCHANGED <<crawlVars, histVars, pageVars, ajaxVars, callVars>>

NextTwo ==
    \/ ReqBegin
    \/ ReqAttempt
    \/ AjaxValidate
    \/ OtherRequest

SpecTwo == InitReq /\ [][NextTwo]_vars


(***************************  claims  **************************************)
\* C1: every exchange of a crawl submits the ViewState returned by the most
\* recent successful exchange before it, or the page-load ViewState when it
\* is the first exchange after a page load: no earlier ViewState is submitted
\* once a newer one has been returned.
C1_SubmitsCurrentViewState ==
    lastX.kind # "none" => lastX.sent = lastX.expect

\* C2: a session expiry at an offset is followed by exactly one fresh search
\* for the same bar and, with the ResultIds built from it, one retry of
\* fetch_page at the same offset; a failing retry, a second expiry included,
\* leaves main() with the error and nothing further is done.
C2_OneSearchOneRetry ==
    /\ [](/\ nSearch <= 1
          /\ nFetch <= 2
          /\ (nFetch = 2 => nSearch = 1 /\ phase \in {"retry", "try"})
          /\ (phase = "research" => nFetch = 1 /\ pc \in {"load", "search", "raised"})
          /\ (phase = "retry" =>
                /\ nSearch = 1
                /\ pc \in {"page1", "page2", "raised"}
                /\ ids.bar = barIdx
                /\ (pc = "page1" => nFetch = 1 /\ lastX.kind = "search"
                                    /\ ids.viewstate = observed)))
    /\ [][/\ (phase = "try" /\ phase' = "research" =>
                pc = "page2" /\ pc' = "load" /\ nSearch = 0)
          /\ (phase # "try" =>
                first' = first /\ barIdx' = barIdx /\ total' = total)
          /\ (phase = "retry" /\ pc' # "raised" =>
                (pc = "page1" /\ pc' = "page2") \/ (pc = "page2" /\ pc' = "details"))
          /\ pc # "raised"]_vars

\* C2 witness: the retry after the one recovery search expired again and the
\* error left main().
C2_Witness ==
    pc = "raised" /\ phase = "retry" /\ err = "expired" /\ nSearch = 1 /\ nFetch = 2

Ceil(a, b) == (a + b - 1) \div b

\* C3: for a page size P >= 1, while every search and pagination exchange of
\* the bar has succeeded, fetch_page is called at offsets 0, P, 2P, ... below
\* the total T, in this order; the loop is left exactly when the offset is
\* >= T, after ceil(T/P) cycles, and with T = 0 no page is fetched.
C3_OffsetsBelowTotal ==
    (rows >= 1 /\ clean) =>
        /\ \A i \in DOMAIN fetchLog : fetchLog[i] = (i - 1) * rows /\ fetchLog[i] < total
        /\ (pc \in {"page1", "page2", "details"} => first < total)
        /\ (pc = "nextbar" =>
              /\ first >= total
              /\ Len(fetchLog) = Ceil(total, rows)
              /\ (total = 0 => fetchLog = <<>>))

\* C3 witness: total 1234 with page size 800 is exhausted after the two
\* cycles at offsets 0 and 800.
C3_Witness ==
    /\ pc = "nextbar" /\ clean /\ rows = DefaultRows /\ total = ExampleTotal
    /\ fetchLog = <<0, DefaultRows>>

\* C4: an error that aborts the crawl of one bar does not stop the run: when
\* the run is over, every selected bar has been attempted.
C4_RunProceeds ==
    (pc = "raised" /\ barIdx >= 1) => attempted = 1 .. NumBars

C6_BoundedAttempts ==
    /\ [](LET n == Len(rq.outcomes)
          IN  /\ n <= max_retries
              /\ \A i \in 1 .. n - 1 : rq.outcomes[i].res \in {"conn", "status"}
              /\ (rq.phase = "attempt" =>
                    /\ rq.attempt = n + 1
                    /\ \A i \in 1 .. n : rq.outcomes[i].res \in {"conn", "status"})
              /\ (rq.phase \in {"returned", "ajax_ok", "ajax_raised"} =>
                    /\ n >= 1
                    /\ rq.outcomes[n].res = "ok"
                    /\ rq.body = rq.outcomes[n].body)
              /\ (rq.phase = "raised" =>
                    /\ n = max_retries
                    /\ \A i \in 1 .. n : rq.outcomes[i].res \in {"conn", "status"}))
    /\ [][/\ (rq.outcomes' # rq.outcomes =>
                \/ /\ rq.phase = "attempt"
                   /\ Len(rq.outcomes') = Len(rq.outcomes) + 1
                   /\ SubSeq(rq.outcomes', 1, Len(rq.outcomes)) = rq.outcomes
                   /\ request_count' = request_count
                \/ /\ rq.phase \in {"idle", "raised", "ajax_ok", "ajax_raised"}
                   /\ rq.outcomes' = <<>>
                   /\ request_count' = request_count + 1)
          /\ (rq.phase = "returned" =>
                /\ rq.outcomes' = rq.outcomes
                /\ rq'.phase \in {"ajax_ok", "ajax_raised"}
                /\ (rq'.phase = "ajax_raised" <=>
                      \/ rq.body.text # "doc"
                      \/ rq.body.markerAt < 0
                      \/ ~rq.body.xmlOk))
         ]_vars

\* C6 witness: two failed attempts, then a third that completes with a full
\* page, which ajax() rejects; nothing has been sent a fourth time.
C6_Witness ==
    /\ rq.phase = "ajax_raised"
    /\ Len(rq.outcomes) = max_retries
    /\ rq.outcomes[1].res = "conn"
    /\ rq.outcomes[2].res = "status"
    /\ rq.body = FullPage

\* C7: when ajax() returns, it returns the decoded updates and, as ViewState,
\* the trimmed payload of the response's ViewState update (the last update
\* whose identifier has the ViewState marker and whose payload is non-empty)
\* when that is a non-empty token, and otherwise exactly the ViewState that
\* was submitted; with a non-empty submitted ViewState the ViewState returned
\* is never empty and never None.
C7_ViewStateOrSubmitted ==
    ajaxOut.ok =>
        LET us == ajaxIn.body.updates
            K == {k \in DOMAIN us :
                    us[k].id \in {ViewStateId, ViewStateIdJavax} /\ us[k].payload # <<>>}
            carried == IF K = {} THEN <<>> ELSE Strip(us[Max(K)].payload)
        IN  /\ DOMAIN ajaxOut.updates = {us[k].id : k \in DOMAIN us}
            /\ \A k \in DOMAIN us :
                  (\A j \in DOMAIN us : j > k => us[j].id # us[k].id)
                      => ajaxOut.updates[us[k].id] = us[k].payload
            /\ (carried # <<>> => ajaxOut.viewstate = carried)
            /\ (carried = <<>> => ajaxOut.viewstate = ajaxIn.viewstate)
            /\ (ajaxIn.viewstate # <<>> => ajaxOut.viewstate \notin {<<>>, None})

\* C7 witness: the response's ViewState update carries " a"; ajax() returns
\* "a", not the submitted "b".
C7_Witness ==
    /\ ajaxOut.ok
    /\ ajaxIn.viewstate = <<"b">>
    /\ ajaxIn.body.updates = Upd(OtherId, <<"a">>) \o Upd(ViewStateId, <<" ", "a">>)
    /\ ajaxOut.viewstate = <<"a">>

\* C8: ajax() raises, returning no updates and no ViewState, when the body is
\* empty or whitespace only, and when the envelope marker does not lie inside
\* the first 4000 characters of the left-stripped body (a full page); it
\* returns updates only for a body that is classified as a partial response.
C8_RaisesOnNonPartial ==
    ajaxOut.err # "pending" =>
        LET body == ajaxIn.body
            partial == body.markerAt >= 0 /\ body.markerAt <= PrefixLen - MarkerLen
        IN  /\ (body.text \in {"none", "blank"} \/ ~partial) =>
                  /\ ~ajaxOut.ok
                  /\ ajaxOut.updates = <<>>
                  /\ ajaxOut.viewstate = None
            /\ (body.text \in {"none", "blank"} => ajaxOut.err = "empty")
            /\ (body.text = "doc" /\ ~partial => ajaxOut.err = "nonxml")
            /\ (ajaxOut.ok => body.text = "doc" /\ partial)

\* C8 witness: a well-formed document without the envelope marker is rejected
\* as a non-XML response.
C8_Witness ==
    /\ ajaxOut = Raise("nonxml")
    /\ ajaxIn.body.text = "doc"
    /\ ajaxIn.body.xmlOk
    /\ ajaxIn.body.markerAt = -1

\* the update targets of a refresh response, and the payload its dict keeps
\* for the result form ("" when it has none)
C9_Keys == {pageIn[k].id : k \in DOMAIN pageIn}

C9_ResultHtml ==
    LET K == {k \in DOMAIN pageIn : pageIn[k].id = ResultFormId}
    IN  IF K = {} THEN <<>> ELSE pageIn[Max(K)].payload

\* C9 as stated: fetch_page reports session expiry exactly when the refresh
\* response's update targets include the search-form identifier and not the
\* result-form identifier; with neither it raises the non-expiry error; with
\* a result-form update it returns that update's payload as the page HTML.
C9_ExpiryByExactTargets ==
    pageOut.outcome # "pending" =>
        /\ (pageOut.outcome = "expired" <=>
              (SearchFormId \in C9_Keys /\ ResultFormId \notin C9_Keys))
        /\ (ResultFormId \notin C9_Keys /\ SearchFormId \notin C9_Keys
              => pageOut.outcome = "noresult")
        /\ (ResultFormId \in C9_Keys =>
              pageOut.outcome = "html" /\ pageOut.html = C9_ResultHtml)

\* C9 amended: fetch_page returns the result-form update's payload as the
\* page HTML exactly when that payload is non-empty; with no result-form
\* update or an empty one, it reports session expiry exactly when some update
\* target's identifier contains "searchForm" (the search form itself or a
\* component inside it), and raises the non-expiry error otherwise.
C9_ExpiryWhenNoPageHtml ==
    pageOut.outcome # "pending" =>
        LET inSearchForm == C9_Keys \cap {SearchFormId, SearchChildId} # {}
        IN  /\ pageOut.outcome \in {"html", "expired", "noresult"}
            /\ (pageOut.outcome = "html" <=> C9_ResultHtml # <<>>)
            /\ (pageOut.outcome = "html" => pageOut.html = C9_ResultHtml)
            /\ (pageOut.outcome = "expired" <=> (C9_ResultHtml = <<>> /\ inSearchForm))
            /\ (pageOut.outcome = "noresult" <=> (C9_ResultHtml = <<>> /\ ~inSearchForm))

\* C9 witness: the only update targets a component inside the search form;
\* fetch_page reports session expiry.
C9_Witness ==
    /\ pageOut.outcome = "expired"
    /\ C9_Keys = {SearchChildId}

\* C10: a detail fetch that fails is contained in its record: the step stays
\* in the detail loop and goes on to the next card, the card keeps its
\* summary fields, no other card changes, the offset, the total and the bar
\* are as before and no error leaves main(); every card before the loop's
\* position that has a detail link has had its fetch, and the page is written
\* with all its cards once the loop is through.
C10_DetailFailureContained ==
    /\ [](/\ (pc = "details" =>
                \A i \in DOMAIN cards :
                    /\ cards[i].name = i
                    /\ (cards[i].detail # "none" <=> (i < cardIdx /\ cards[i].info)))
          /\ \A i \in DOMAIN sink :
                /\ sink[i].name = i
                /\ (sink[i].info => sink[i].detail \in {"merged", "failed"})
                /\ (~sink[i].info => sink[i].detail = "none"))
    /\ [][/\ (pc = "details" /\ cardIdx <= Len(cards) =>
                /\ pc' = "details"
                /\ err' = err
                /\ cardIdx' = cardIdx + 1
                /\ first' = first /\ total' = total /\ barIdx' = barIdx
                /\ writeLog' = writeLog /\ totalWritten' = totalWritten
                /\ DOMAIN cards' = DOMAIN cards
                /\ \A i \in DOMAIN cards :
                      /\ cards'[i].name = cards[i].name
                      /\ cards'[i].info = cards[i].info
                      /\ (i # cardIdx => cards'[i] = cards[i]))
          /\ (pc = "details" /\ cardIdx > Len(cards) =>
                /\ sink' = cards
                /\ (~LogFull => writeLog' = Append(writeLog, first))
                /\ totalWritten' = totalWritten + Len(cards))
         ]_vars

\* C10 witness: the first record's detail fetch failed, the second record's
\* succeeded, and both records were written.
C10_Witness ==
    sink = <<[name |-> 1, info |-> TRUE, detail |-> "failed"],
             [name |-> 2, info |-> TRUE, detail |-> "merged"]>>

\* the identity an instance that rotates alone uses for its n-th request:
\* its own headers and the direct connection before the first rotation, then
\* the entries of HEADERS_LIST and of the proxy list in turn
C11_Headers(n) ==
    IF n < rotate_every THEN 0 ELSE ((n \div rotate_every - 1) % NumHeaders) + 1

C11_Proxy(n) ==
    IF n < 3 * rotate_every THEN 0
    ELSE ((n \div (3 * rotate_every) - 1) % NumProxies) + 1

\* C11: the identity of an instance is a function of its count of logical
\* requests alone: the header set changes exactly in the step that begins a
\* request whose ordinal is a multiple of rotate_every, the proxy is taken
\* from the proxy cycle exactly when the ordinal is a multiple of
\* 3 * rotate_every, whatever the outcome of the requests before; the count
\* moves only when a logical request begins, never in an attempt; all
\* attempts of a request use the identity the request began with; and every
\* attempt sends from the one cookie jar of the instance.
C11_RotationByRequestCount ==
    /\ [](/\ current_headers = C11_Headers(request_count)
          /\ current_proxy = C11_Proxy(request_count)
          /\ cookie_jar = 1
          /\ \A i \in DOMAIN rq.outcomes :
                /\ rq.outcomes[i].hdr = current_headers
                /\ rq.outcomes[i].proxy = current_proxy
                /\ rq.outcomes[i].jar = cookie_jar)
    /\ [][/\ (current_headers' # current_headers <=>
                (request_count' = request_count + 1 /\ request_count' % rotate_every = 0))
          /\ (current_proxy' # current_proxy =>
                (request_count' = request_count + 1
                    /\ request_count' % (3 * rotate_every) = 0))
          /\ (request_count' # request_count /\ request_count' % (3 * rotate_every) = 0 =>
                /\ current_proxy' = proxy_cycle
                /\ proxy_cycle' = (proxy_cycle % NumProxies) + 1)
          /\ (request_count' # request_count =>
                /\ request_count' = request_count + 1
                /\ rq.phase \in {"idle", "raised", "ajax_ok", "ajax_raised"}
                /\ rq'.phase = "attempt" /\ rq'.outcomes = <<>>)
          /\ (rq.phase \in {"attempt", "returned"} =>
                /\ request_count' = request_count
                /\ current_headers' = current_headers
                /\ current_proxy' = current_proxy)
          /\ cookie_jar' = cookie_jar
         ]_vars

\* C11 witness: the 60th request, begun after a request that raised, rotated
\* the headers and the proxy, and its three failed attempts all used the new
\* identity.
C11_Witness ==
    /\ request_count = 3 * rotate_every
    /\ rq.phase = "raised"
    /\ Len(rq.outcomes) = max_retries
    /\ \A i \in DOMAIN rq.outcomes :
          rq.outcomes[i].hdr = 3 /\ rq.outcomes[i].proxy = 1 /\ rq.outcomes[i].jar = 1

\* C12: next to a second instance in the same process, the header sets and
\* proxies an instance uses are those it would use alone, whatever requests
\* the other instance makes; the two instances send from different cookie
\* jars.
C12_IdentityIndependentOfOther ==
    /\ current_headers = C11_Headers(request_count)
    /\ current_proxy = C11_Proxy(request_count)
    /\ other.current_headers = C11_Headers(other.request_count)
    /\ other.current_proxy = C11_Proxy(other.request_count)
    /\ cookie_jar # other.cookie_jar

\* C13: for a well-formed envelope with an update whose identifier has the
\* ViewState marker and whose payload is non-empty, _parse_partial_response
\* returns the trimmed payload of that update (of the last such update when
\* there are several) as the ViewState, wherever it stands among the other
\* updates; without such an update it returns None; and the updates returned
\* map every update identifier to its payload (to the last one's when an
\* identifier occurs twice).
C13_ViewStateFromMarkedUpdate ==
    (callOut # <<>> /\ callIn.xmlOk) =>
        LET us == callIn.updates
            out == callOut[1]
            K == {k \in DOMAIN us :
                    us[k].id \in {ViewStateId, ViewStateIdJavax} /\ us[k].payload # <<>>}
        IN  /\ ~out.raised
            /\ (K # {} => out.viewstate = Strip(us[Max(K)].payload))
            /\ (Cardinality(K) = 1 => \A k \in K : out.viewstate = Strip(us[k].payload))
            /\ (K = {} => out.viewstate = None)
            /\ DOMAIN out.updates = {us[k].id : k \in DOMAIN us}
            /\ \A k \in DOMAIN us :
                  (\A j \in DOMAIN us : j > k => us[j].id # us[k].id)
                      => out.updates[us[k].id] = us[k].payload

\* C13 witness: the ViewState update " a" stands before another update; the
\* ViewState returned is "a" and both updates are in the map.
C13_Witness ==
    /\ callOut # <<>>
    /\ callIn.updates = Upd(ViewStateId, <<" ", "a">>) \o Upd(OtherId, <<"a">>)
    /\ callOut[1].viewstate = <<"a">>
    /\ callOut[1].updates[OtherId] = <<"a">>
    /\ callOut[1].updates[ViewStateId] = <<" ", "a">>

\* whether the document of a call is a full page, and whether it is a
\* well-formed partial envelope
C14_FullPage ==
    callIn.body.markerAt < 0 \/ callIn.body.markerAt > PrefixLen - MarkerLen

C14_FirstMatch ==
    IF callIn.jakarta # None THEN callIn.jakarta
    ELSE IF callIn.javax # None THEN callIn.javax
    ELSE callIn.byId

\* C14 as stated: for a full page _extract_viewstate_any returns the value
\* captured by the first of the patterns (jakarta name, javax name, id with
\* ViewState) that matches, unmodified, and raises when none matches; for a
\* partial envelope without a ViewState update it raises.
C14_FirstPatternUnmodified ==
    callOut # <<>> =>
        /\ (C14_FullPage /\ C14_FirstMatch # None =>
              callOut[1].ok /\ callOut[1].value = C14_FirstMatch)
        /\ (C14_FullPage /\ C14_FirstMatch = None => ~callOut[1].ok)
        /\ (~C14_FullPage /\ callIn.body.xmlOk
                /\ (\A k \in DOMAIN callIn.body.updates :
                        callIn.body.updates[k].id \notin {ViewStateId, ViewStateIdJavax})
              => ~callOut[1].ok)

\* C14 amended: for a full page _extract_viewstate_any returns the value
\* captured by the first of the patterns, in the order jakarta name, javax
\* name, id with ViewState, that matches, with surrounding whitespace trimmed
\* (the empty string for a value of whitespace only), and raises when none
\* matches; for a partial envelope it returns the envelope's trimmed ViewState
\* and raises when the envelope has no ViewState update or only a blank one.
C14_FirstPatternTrimmed ==
    callOut # <<>> =>
        /\ (C14_FullPage /\ C14_FirstMatch # None =>
              /\ callOut[1] = Returned(Strip(C14_FirstMatch)))
        /\ (C14_FullPage /\ C14_FirstMatch = None => callOut[1] = Raised("notfound"))
        /\ (~C14_FullPage =>
              LET us == callIn.body.updates
                  K == {k \in DOMAIN us :
                          us[k].id \in {ViewStateId, ViewStateIdJavax}
                              /\ us[k].payload # <<>>}
              IN  /\ (callOut[1].ok <=> (K # {} /\ Strip(us[Max(K)].payload) # <<>>))
                  /\ (callOut[1].ok => callOut[1].value = Strip(us[Max(K)].payload))
                  /\ (~callOut[1].ok => callOut[1].value = None))

\* C14 witness: the jakarta pattern does not match, the javax pattern captures
\* " a" and the id pattern "b"; the value returned is "a".
C14_Witness ==
    /\ callOut = <<Returned(<<"a">>)>>
    /\ callIn.body = FullPage
    /\ callIn.jakarta = None
    /\ callIn.javax = <<" ", "a">>
    /\ callIn.byId = <<"b">>

\* a count as a page writes it: decimal digits, bare or in groups of three
\* set off by one grouping separator, the dot or the comma
C15_IsCount(t) ==
    /\ t # None
    /\ t[1] \in Digits
    /\ \/ \A i \in DOMAIN t : t[i] \in Digits
       \/ \E sep \in {".", ","} :
            \A i \in DOMAIN t :
                IF (Len(t) - i) % 4 = 3 THEN t[i] = sep ELSE t[i] \in Digits

RECURSIVE C15_DigitsOf(_)
C15_DigitsOf(t) ==
    IF t = <<>> THEN <<>>
    ELSE IF Head(t) \in Digits THEN <<Head(t)>> \o C15_DigitsOf(Tail(t))
    ELSE C15_DigitsOf(Tail(t))

\* the number text of the phrasing that _extract_total_results reads: the
\* first phrasing, in the order English, German, range, that occurs
C15_Count ==
    IF callIn.en # None THEN callIn.en
    ELSE IF callIn.de # None THEN callIn.de
    ELSE callIn.range

\* C15: _extract_total_results returns the count N written after a known
\* phrasing with its grouping separators removed ("1.234" and "1234" both
\* give 1234), and raises when no phrasing occurs.
C15_CountWithoutSeparators ==
    callOut # <<>> =>
        /\ (C15_Count # None /\ C15_IsCount(C15_Count) =>
              callOut[1] = Returned(ToInt(C15_DigitsOf(C15_Count))))
        /\ (C15_Count = None => ~callOut[1].ok)

\* a line that is five digits, whitespace and text
C16_Postal(line) ==
    Len(line) >= 7 /\ SubSeq(line, 1, 6) = <<"d", "d", "d", "d", "d", " ">>

\* the lines l[i..j] joined with the separator " | "
RECURSIVE C16_Joined(_, _, _)
C16_Joined(l, i, j) ==
    IF i = j THEN l[i] ELSE C16_Joined(l, i, j - 1) \o <<" ", "|", " ">> \o l[j]

\* C16: _parse_cards yields one record per card, in document order; for a
\* card with header h and lines l0..ln the record has name = h and
\* professional_title = l0 (empty without lines); a last line among l1..ln
\* that is five digits, whitespace and text gives zip and city and is set
\* aside; of the lines then left, none give an empty street and office, one
\* is the street, and of two or more the last is the street and the others,
\* joined with " | ", the office.
C16_CardFields ==
    callOut # <<>> =>
        /\ Len(callOut[1]) = Len(callIn)
        /\ \A c \in DOMAIN callIn :
              LET l == callIn[c].lis
                  r == callOut[1][c]
                  n == Len(l)
                  postal == n >= 2 /\ C16_Postal(l[n])
                  m == IF postal THEN n - 1 ELSE n
              IN  /\ r.name = callIn[c].header
                  /\ r.info_id = callIn[c].info
                  /\ r.professional_title = (IF n = 0 THEN <<>> ELSE l[1])
                  /\ (postal =>
                        /\ r.zip = <<"d", "d", "d", "d", "d">>
                        /\ r.zip \o <<" ">> \o r.city = l[n]
                        /\ r.zip_city_raw = l[n])
                  /\ (~postal => r.zip = <<>> /\ r.city = <<>> /\ r.zip_city_raw = <<>>)
                  /\ (m <= 1 => r.street = <<>> /\ r.office = <<>>)
                  /\ (m = 2 => r.street = l[2] /\ r.office = <<>>)
                  /\ (m >= 3 => r.street = l[m] /\ r.office = C16_Joined(l, 2, m - 1))

\* C16 witness: the first card of a page has a title, two office lines and
\* a street; the second a title and a postal line.
C16_Witness ==
    /\ callOut # <<>>
    /\ Len(callIn) = 2
    /\ callIn[1].lis = <<TitleLine, StreetLine, TitleLine, StreetLine>>
    /\ callOut[1][1].professional_title = TitleLine
    /\ callOut[1][1].office = <<"x", " ", "d", " ", "|", " ", "x">>
    /\ callOut[1][1].street = StreetLine
    /\ callOut[1][1].zip = <<>>
    /\ callOut[1][2].name = <<"x", "x">>
    /\ callOut[1][2].zip = BareZipLine
    /\ callOut[1][2].city = <<"x">>
    /\ callOut[1][2].street = <<>>

\* the options of the selector that carry a label and a value
C17_Usable ==
    {k \in DOMAIN callIn : Clean(callIn[k].label) # <<>> /\ Strip(callIn[k].value) # <<>>}

\* C17: when several options of the jurisdiction selector have the same
\* whitespace-normalized label, the label-to-value map keeps the value of the
\* first of them in document order.
C17_FirstOccurrenceKept ==
    (callOut # <<>> /\ callOut[1].ok) =>
        \A k \in C17_Usable :
            (\A j \in C17_Usable : j < k => Clean(callIn[j].label) # Clean(callIn[k].label))
                => callOut[1].value[Clean(callIn[k].label)] = Strip(callIn[k].value)

\* the fields of a call's form that an extra field does not replace
C18_Own == DOMAIN callOut[1] \ DOMAIN callIn.extra

\* C18: the form ajax() submits holds the form identifier as key and value,
\* the AJAX marker, the source id, the execute scope (the given one, or the
\* source id when none is given), the render scope exactly when one is given,
\* the two behavior-event fields exactly when a behavior event is supplied,
\* the source id as a field of its own and the ViewState submitted; every
\* extra field is in the form with the caller's value, also under the key of
\* one of these fields, and there is no other field.
C18_FormFields ==
    callOut # <<>> =>
        LET form == callOut[1]
            call == callIn
            has(k, v) == k \in DOMAIN form /\ (k \in C18_Own => form[k] = v)
        IN  /\ has(call.form_id, call.form_id)
            /\ has(AjaxMarkerKey, "true")
            /\ has(SourceKey, call.source_id)
            /\ has(ExecuteKey, IF call.execute = NoArg THEN call.source_id ELSE call.execute)
            /\ (call.render # NoArg => has(RenderKey, call.render))
            /\ (call.render = NoArg => RenderKey \notin DOMAIN form)
            /\ (call.behavior_event \notin {NoArg, ""} =>
                  /\ has(BehaviorEventKey, call.behavior_event)
                  /\ has(PartialEventKey, call.behavior_event))
            /\ (call.behavior_event \in {NoArg, ""} =>
                  {BehaviorEventKey, PartialEventKey} \cap DOMAIN form = {})
            /\ has(call.source_id, call.source_id)
            /\ has(ViewStateKey, call.viewstate)
            /\ \A k \in DOMAIN call.extra : k \in DOMAIN form /\ form[k] = call.extra[k]
            /\ C18_Own \subseteq
                  {call.form_id, AjaxMarkerKey, SourceKey, ExecuteKey, RenderKey,
                   BehaviorEventKey, PartialEventKey, call.source_id, ViewStateKey}

\* C18 witness: a call without execute scope, render scope or behavior event
\* whose extra fields replace the ViewState and add a pagination field.
C18_Witness ==
    /\ callOut # <<>>
    /\ callIn.execute = NoArg /\ callIn.render = NoArg /\ callIn.behavior_event = NoArg
    /\ callIn.source_id = "resultForm:grid"
    /\ DOMAIN callIn.extra = {ViewStateKey, "grid_first"}
    /\ callOut[1][ViewStateKey] = "x"
    /\ callOut[1]["grid_first"] = "x"
    /\ callOut[1][ExecuteKey] = "resultForm:grid"
    /\ DOMAIN callOut[1] =
          {"resultForm", AjaxMarkerKey, SourceKey, ExecuteKey, "resultForm:grid",
           ViewStateKey, "grid_first"}

\* the positions of the elements whose onclick both calls PrimeFaces.ab and
\* names mainPageContent
C19_Controls ==
    {i \in 1 .. Len(callIn.elements) :
        callIn.elements[i].ab /\ callIn.elements[i].target}

\* some option of the jurisdiction selector has a label and a value
C19_HasOptions ==
    \E i \in 1 .. Len(callIn.options) :
        Clean(callIn.options[i].label) # <<>> /\ Strip(callIn.options[i].value) # <<>>

\* C19: parse_search_ids raises when the jurisdiction field name, the
\* jurisdiction options or the search-submit control is missing; when it
\* returns, the control is the first element in document order whose onclick
\* calls the AJAX dispatcher and names the result region; a page without a
\* language selector that has everything else is parsed, with lang_name None.
C19_SearchIds ==
    callOut # <<>> =>
        LET r == callOut[1]
        IN  /\ (callIn.bar = None \/ ~C19_HasOptions \/ C19_Controls = {}) => ~r.ok
            /\ r.ok =>
                 \E i \in C19_Controls :
                    /\ \A j \in C19_Controls : i <= j
                    /\ r.value.search_button_id = callIn.elements[i].id
            /\ (/\ callIn.lang = None
                /\ callIn.viewstate # None
                /\ callIn.bar # None
                /\ C19_HasOptions
                /\ C19_Controls # {})
               => r.ok /\ r.value.lang_name = None

\* C19 witness: a page without language selector whose second element is the
\* first search-submit control is parsed; the first element only calls the
\* dispatcher.
C19_Witness ==
    /\ callOut # <<>>
    /\ callIn.lang = None
    /\ Len(callIn.elements) = 2
    /\ callIn.elements[1].ab /\ ~callIn.elements[1].target
    /\ callIn.elements[1].id # callIn.elements[2].id
    /\ callOut[1].ok
    /\ callOut[1].value.lang_name = None
    /\ callOut[1].value.search_button_id = callIn.elements[2].id

\* the decimal numerals of the numbers below ten
C21_Numeral(n) ==
    CASE n = 0 -> "0" [] n = 1 -> "1" [] n = 2 -> "2" [] n = 3 -> "3" [] n = 4 -> "4"
      [] n = 5 -> "5" [] n = 6 -> "6" [] n = 7 -> "7" [] n = 8 -> "8" [] n = 9 -> "9"

\* the form carries the offset, the page size and the page number of the call
C21_Carries(form) ==
    LET g == callIn.ids.datagrid_id
        page == IF callIn.rows = 0 THEN 0
                ELSE CHOOSE q \in 0 .. callIn.first :
                        q * callIn.rows <= callIn.first /\ callIn.first < (q + 1) * callIn.rows
    IN  /\ form[g \o "_first"] = C21_Numeral(callIn.first)
        /\ form[g \o "_rows"] = C21_Numeral(callIn.rows)
        /\ form[g \o "_page"] = C21_Numeral(page)

\* C21: fetch_page makes at most two exchanges, the second only after the
\* first succeeded.  The first is the page-change event: source and execute
\* scope are the data grid, there is no render scope, the form carries the
\* offset, the page size and the page number offset div page size (0 for page
\* size 0), and it submits the ViewState of the ResultIds.  The second is the
\* refresh: its source is the page-refresh control, its execute and render
\* scopes are the result form, and it submits the ViewState the first returned.
C21_TwoExchangesInOrder ==
    /\ Len(callOut) <= 2
    /\ Len(callOut) >= 1 =>
          LET form == callOut[1].form
          IN  /\ form[SourceKey] = callIn.ids.datagrid_id
              /\ form[ExecuteKey] = callIn.ids.datagrid_id
              /\ RenderKey \notin DOMAIN form
              /\ form[BehaviorEventKey] = "page"
              /\ form[ViewStateKey] = callIn.ids.viewstate
              /\ C21_Carries(form)
    /\ Len(callOut) = 2 =>
          LET form == callOut[2].form
          IN  /\ callOut[1].r.ok
              /\ form[SourceKey] = callIn.ids.update_data_result_source
              /\ form[ExecuteKey] = callIn.ids.form_id
              /\ form[RenderKey] = callIn.ids.form_id
              /\ form[ViewStateKey] = callOut[1].r.viewstate

\* C21 witness: the page at offset 3 with page size 2 is requested as page 1;
\* the page-change response carried a new ViewState, which the refresh submits.
C21_Witness ==
    /\ Len(callOut) = 2
    /\ callIn.first = 3 /\ callIn.rows = 2
    /\ callOut[1].form[callIn.ids.datagrid_id \o "_page"] = "1"
    /\ callOut[1].r.viewstate # callIn.ids.viewstate
    /\ callOut[2].form[ViewStateKey] = callOut[1].r.viewstate
    /\ callOut[2].r.ok

\* C22: every page-change, refresh and detail exchange made while bar j is
\* crawled uses the ResultIds built from a search submitted for j, the
\* initial one or the recovery one; every search exchange directly follows a
\* full page load made for the same bar and submits the ViewState of that
\* page; the ResultIds are built by a search and otherwise only take the
\* ViewState of their own exchanges.
C22_ContextOfOwnSearch ==
    /\ [](/\ (lastX.kind \in {"page", "refresh", "detail"} =>
                ids.bar = barIdx /\ barIdx \in attempted)
          /\ (pc \in {"page1", "page2", "details"} => ids.bar = barIdx)
          /\ (pc = "search" => sidsVs = observed /\ barIdx \in attempted))
    /\ [][/\ (pc' = "search" => pc = "load" /\ barIdx' = barIdx)
          /\ (lastX'.kind = "search" =>
                pc = "search" /\ lastX'.sent = sidsVs /\ barIdx' = barIdx)
          /\ (ids'.bar # ids.bar => pc = "search" /\ ids'.bar = barIdx)
          /\ (lastX'.kind \in {"page", "refresh", "detail"} =>
                lastX'.sent \in {ids.viewstate, fpVs} /\ barIdx' = barIdx)
         ]_vars

\* C22 witness: the second bar's session expired and the page is fetched
\* again with the ResultIds of the second bar's recovery search.
C22_Witness ==
    barIdx = 2 /\ phase = "retry" /\ lastX.kind = "page" /\ ids.bar = 2 /\ pc = "page2"

\* the fields of the search form that are not protocol fields or ids
C23_ExtraFields(form) ==
    DOMAIN form \ {callIn.sids.form_id, AjaxMarkerKey, SourceKey, ExecuteKey, RenderKey,
                   BehaviorEventKey, PartialEventKey, callIn.sids.search_button_id,
                   ViewStateKey}

\* C23: the search transition makes one exchange: its source is the
\* search-submit control, its execute scope the search form, its render scope
\* the result region, and its extra fields are the jurisdiction value and,
\* only when the page has a language field, the language.  When it succeeds
\* the ResultIds hold the ViewState that exchange returned and the two
\* identifiers found in the fragment; it raises when the result-region
\* update is absent or empty or when one of the identifiers is not found.
C23_SearchTransition ==
    callOut # <<>> =>
        LET out == callOut[1]
            x == out.exchanges[1]
            sids == callIn.sids
            fragment == IF x.r.ok /\ MainContentId \in DOMAIN x.r.updates
                        THEN x.r.updates[MainContentId] ELSE <<>>
        IN  /\ Len(out.exchanges) = 1
            /\ x.form[sids.form_id] = sids.form_id
            /\ x.form[SourceKey] = sids.search_button_id
            /\ x.form[ExecuteKey] = SearchFormId
            /\ x.form[RenderKey] = MainContentId
            /\ x.form[ViewStateKey] = sids.viewstate
            /\ x.form[sids.bar_name] = callIn.bar_value
            /\ C23_ExtraFields(x.form) =
                  IF sids.lang_name = NoArg THEN {sids.bar_name}
                  ELSE {sids.bar_name, sids.lang_name}
            /\ out.result.ok =>
                  /\ x.r.ok
                  /\ out.result.value.viewstate = x.r.viewstate
                  /\ out.result.value.datagrid_id = out.found.datagrid_id
                  /\ out.result.value.update_data_result_source =
                        out.found.update_data_result_source
                  /\ out.found.datagrid_id # NoArg
                  /\ out.found.update_data_result_source # NoArg
            /\ (\/ fragment = <<>>
                \/ out.found.datagrid_id = NoArg
                \/ out.found.update_data_result_source = NoArg) => ~out.result.ok

\* C23 witness: a page without language field; the search response carries a
\* new ViewState and a fragment with both identifiers, and the ResultIds hold
\* them.
C23_Witness ==
    /\ callOut # <<>>
    /\ callIn.sids.lang_name = NoArg
    /\ callOut[1].result.ok
    /\ callOut[1].result.value.viewstate # callIn.sids.viewstate
    /\ callOut[1].result.value.datagrid_id = "resultForm:j_idt9"
    /\ DOMAIN callOut[1].exchanges[1].form =
          {SearchFormId, AjaxMarkerKey, SourceKey, ExecuteKey, RenderKey,
           BehaviorEventKey, PartialEventKey, callIn.sids.search_button_id,
           ViewStateKey, callIn.sids.bar_name}

\* the candidates whose answer is a full document with the search-form marker
\* and a ViewState field
C24_Usable ==
    {i \in 1 .. NumCandidates :
        /\ ~callIn[i].raise
        /\ callIn[i].doc.body = FullPage
        /\ callIn[i].hasForm
        /\ callIn[i].doc.javax # None}

\* C24: get_search_page returns the answer of the first candidate, in the
\* order of the list, that is a full document with the search-form marker and a
\* ViewState; every candidate before it is passed over whatever it answered,
\* and an error is raised only when all candidates have been tried.
C24_FirstUsableCandidate ==
    (callOut # <<>> /\ callOut[Len(callOut)] # "continue") =>
        IF C24_Usable = {}
        THEN callOut = [i \in 1 .. NumCandidates + 1 |->
                          IF i <= NumCandidates THEN "continue" ELSE "raised"]
        ELSE /\ callOut[Len(callOut)] = "returned"
             /\ Len(callOut) \in C24_Usable
             /\ \A i \in C24_Usable : Len(callOut) <= i

\* the detail-region update of the response, when ajax() accepted it
C25_DetailUpdate ==
    LET r == callOut[1].exchanges[1].r
    IN  IF r.ok /\ DetailFormId \in DOMAIN r.updates THEN r.updates[DetailFormId] ELSE <<>>

\* C25: fetch_details makes one exchange: its source is the record's detail
\* link, it submits the ViewState held in the ResultIds, it names no execute
\* scope (the form then carries the source as execute scope) and its render
\* scope is the detail region.  It returns the payload of the detail-region
\* update with the ViewState ajax() returned, and raises when that update is
\* absent or empty; after a successful fetch ids.viewstate is the ViewState
\* this exchange returned.
C25_DetailExchange ==
    callOut # <<>> =>
        LET out == callOut[1]
            x == out.exchanges[1]
        IN  /\ Len(out.exchanges) = 1
            /\ x.call.execute = NoArg
            /\ x.form[SourceKey] = callIn.info_button_id
            /\ x.form[ExecuteKey] = callIn.info_button_id
            /\ x.form[RenderKey] = DetailFormId
            /\ x.form[ViewStateKey] = callIn.viewstate
            /\ (C25_DetailUpdate = <<>> => ~out.result.ok)
            /\ (out.result.ok =>
                  /\ out.result.value.detail_html = C25_DetailUpdate
                  /\ out.result.value.viewstate = x.r.viewstate
                  /\ out.ids_viewstate = x.r.viewstate)
            /\ (x.r.ok /\ C25_DetailUpdate # <<>> => out.result.ok)

\* C25 witness: a detail fetch returned the detail HTML and a ViewState other
\* than the submitted one, which ids.viewstate now holds.
C25_Witness ==
    /\ callOut # <<>>
    /\ callOut[1].result.ok
    /\ callOut[1].result.value.detail_html = Html
    /\ callOut[1].ids_viewstate # callIn.viewstate
    /\ callOut[1].ids_viewstate = callOut[1].exchanges[1].r.viewstate

\* the field a label names; a label without text names none
C26_Field(label) ==
    CASE label \in {NoArg, ":"} -> NoArg
      [] label \in {"E-Mail:", "Email"} -> "email"
      [] label = "Telephone:" -> "telephone"

\* the rows that contribute: label, value container, and a value that is
\* neither empty nor the placeholder
C26_Retained ==
    {i \in DOMAIN callIn :
        /\ C26_Field(callIn[i].label) # NoArg
        /\ callIn[i].value \in {<< <<" ", "x">> >>, << <<"y">>, <<" ">>, <<"x">> >>}}

\* the text of the two values that are retained
C26_Text(value) == IF value = << <<" ", "x">> >> THEN <<"x">> ELSE <<"y", " ", "x">>

\* C26: _extract_details returns one entry for each field that some row with
\* label, value container and a value other than empty and "No Information"
\* names; the entry is the value of the first such row, and rows without
\* label, without value container or without such a value add nothing.
C26_FirstRetainedValue ==
    callOut # <<>> =>
        LET details == callOut[1]
        IN  /\ DOMAIN details = {C26_Field(callIn[i].label) : i \in C26_Retained}
            /\ \A i \in C26_Retained :
                  (\A j \in C26_Retained :
                      C26_Field(callIn[j].label) = C26_Field(callIn[i].label) => i <= j)
                  => details[C26_Field(callIn[i].label)] = C26_Text(callIn[i].value)

\* C26 witness: the first e-mail row holds the placeholder, the second and the
\* third hold different values; the value of the second is returned.
C26_Witness ==
    /\ callOut # <<>>
    /\ Len(callIn) = 3
    /\ callIn[1].label = "E-Mail:" /\ callIn[1].value = << <<"N">> >>
    /\ callIn[2].label = "E-Mail:" /\ callIn[2].value = << <<"y">>, <<" ">>, <<"x">> >>
    /\ callIn[3].label = "Email" /\ callIn[3].value = << <<" ", "x">> >>
    /\ DOMAIN callOut[1] = {"email"}
    /\ callOut[1]["email"] = <<"y", " ", "x">>

\* C27: a ViewState carried by a response that fetch_details then rejects
\* supersedes the one held: once a detail fetch of the page has failed, the
\* ViewState held for the next exchange (the next detail fetch, or the
\* page-change of the next page) is the latest one a response carried, and
\* the next detail exchange submits it.
C27_RejectedResponseSupersedes ==
    /\ []((/\ pc \in {"details", "loop"}
           /\ \E i \in DOMAIN cards : cards[i].detail = "failed")
          => ids.viewstate = observed)
    /\ [][(/\ pc = "details"
           /\ cardIdx > 1
           /\ cards[cardIdx - 1].detail = "failed"
           /\ lastX'.kind = "detail")
          => lastX'.sent = observed]_vars

\* C28: the crawl of a bar terminates for every page size, 0 included: from
\* the head of the page loop main() always comes to leave the loop (first >=
\* total), to stop at the record cap, or to raise.
C28_CrawlTerminates ==
    (pc = "loop") ~> (pc \in {"nextbar", "stopped", "raised"})

\* C29: with a record cap N > 0 the run stops exactly in the step that writes
\* a whole page and brings the number of records written, over all bars, to N
\* or more; until then that number is below N, after the stop nothing is done,
\* and with N = 0 the run never stops at the cap.
C29_CapAfterWholePage ==
    /\ [](/\ (pc = "stopped" => maxRecords > 0 /\ totalWritten >= maxRecords)
          /\ (maxRecords > 0 /\ pc # "stopped" => totalWritten < maxRecords)
          /\ (maxRecords = 0 => pc # "stopped"))
    /\ [][/\ pc # "stopped"
          /\ totalWritten' = totalWritten + Len(sink')
          /\ (pc' = "stopped" =>
                /\ pc = "details" /\ cardIdx > Len(cards)
                /\ sink' = cards
                /\ lastX' = NoExchange
                /\ totalWritten < maxRecords)
          /\ (totalWritten' # totalWritten /\ maxRecords > 0 /\ totalWritten' >= maxRecords
                => pc' = "stopped")
         ]_vars

\* C29 witness: with cap 2 the run stops in the second bar, whose page brings
\* the records written to 3 after one record of the first bar.
C29_Witness ==
    /\ pc = "stopped" /\ maxRecords = 2 /\ barIdx = 2
    /\ totalWritten = 3 /\ Len(sink) = 2

====
